---- MODULE Spec2Model ----
(***************************************************************************)
(* Model of the streamlinux media pipeline:                                *)
(*   - the sender A/V synchronizer   (linux-host/src/sync)                 *)
(*   - the receiver master clock and presentation classifier               *)
(*     (android-client/.../sync/av_sync.cpp, streamlinux_jni.cpp)          *)
(*   - the control channel           (linux-host/src/control)              *)
(* Times are microseconds.  Clock speeds are kept in per-mille (1000 is    *)
(* the nominal speed 1.0).  A frame's payload is modelled by a unique id.  *)
(***************************************************************************)
EXTENDS Integers, Sequences, FiniteSets, TLC

\* ------------------------------------------------------------------ bounds
MaxPushV == 2
MaxPushA == 2
MaxOverflow == 2
MaxTuples == 2
MaxOffsetPush == 1
VideoBurst == 29
AudioBurst == 49

\* PTS values offered to push_video / push_audio
PtsSet == {0, 100000, 250000}
\* a two-value PTS set, for the runs with many pushes
BurstPts == {0, 250000}
\* readings of the monotonic clock
ClockReadings == {1000000}

\* ------------------------------------------------------- program constants
VIDEO_BUFFER_LIMIT == 30
AUDIO_BUFFER_LIMIT == 50
DRIFT_SAMPLE_COUNT == 100
DRIFT_MIN_SAMPLES == 10

None == [valid |-> FALSE]

Abs(x) == IF x < 0 THEN 0 - x ELSE x
Max(a, b) == IF a > b THEN a ELSE b

RECURSIVE SeqToSet(_)
SeqToSet(s) == IF s = <<>> THEN {} ELSE {Head(s)} \cup SeqToSet(Tail(s))

\* ======================================================================
\*  Sender: stream_linux::AVSynchronizer
\* ======================================================================
VARIABLES
    m_video_buffer, m_audio_buffer,
    m_video_drift_samples, m_audio_drift_samples,
    m_running, m_base_time, m_last_video_pts, m_last_audio_pts,
    m_config, m_stats,
    ret,        \* value returned by the last get_next call
    pushedV, pushedA,   \* frames accepted since the last reset, in call order
    tuples,     \* tuples returned by get_next since the last reset
    lostV, lostA        \* frames discarded since the last reset, with the cause

syncVars == <<m_video_buffer, m_audio_buffer, m_video_drift_samples,
              m_audio_drift_samples, m_running, m_base_time, m_last_video_pts,
              m_last_audio_pts, m_config, m_stats, ret, pushedV, pushedA,
              tuples, lostV, lostA>>

SyncConfig == [target_offset_us |-> 0,
               max_desync_us |-> 100000,
               jitter_buffer_ms |-> 50,
               enable_drift_correction |-> TRUE,
               allow_frame_drop |-> TRUE,
               allow_frame_duplicate |-> FALSE]

SyncStats == [audio_video_offset_us |-> 0,
              drift_estimated |-> FALSE,
              frames_dropped |-> 0,
              frames_duplicated |-> 0]

SyncInit ==
    /\ m_video_buffer = <<>>
    /\ m_audio_buffer = <<>>
    /\ m_video_drift_samples = <<>>
    /\ m_audio_drift_samples = <<>>
    /\ m_running = FALSE
    /\ m_base_time = 0
    /\ m_last_video_pts = 0
    /\ m_last_audio_pts = 0
    /\ m_config = SyncConfig
    /\ m_stats = SyncStats
    /\ ret = None
    /\ pushedV = <<>>
    /\ pushedA = <<>>
    /\ tuples = <<>>
    /\ lostV = {}
    /\ lostA = {}

\* deque::push_back, once per frame of frames
PushBackAll(buf, frames) == buf \o frames

\* "while (size > limit) pop_front()": what is left of the deque
TrimFrontLate(buf, limit) ==
    IF Len(buf) > limit + 1 THEN SubSeq(buf, Len(buf) - limit, Len(buf)) ELSE buf
TrimFront(buf, limit) ==
    IF Len(buf) > limit THEN SubSeq(buf, Len(buf) - limit + 1, Len(buf)) ELSE buf

\* ... and the elements the loop removed
Evicted(buf, limit) ==
    IF Len(buf) > limit THEN {buf[i] : i \in 1..(Len(buf) - limit)} ELSE {}

DriftSample(t, frame) == [local_time |-> t - m_base_time, stream_time |-> frame.pts]

\* the effect of consecutive push_video calls, one per frame of frames, on
\* the buffer, the drift ring, m_last_video_pts and frames_dropped; every
\* call trims to the limit, so the frames evicted are the oldest ones
PushVideoMany(st, frames, t) ==
    LET buf1 == PushBackAll(st.buf, frames)
        ev   == Evicted(buf1, VIDEO_BUFFER_LIMIT)
    IN [buf |-> TrimFront(buf1, VIDEO_BUFFER_LIMIT),
        ring |-> TrimFront(PushBackAll(st.ring,
                              [i \in 1..Len(frames) |-> DriftSample(t, frames[i])]),
                           DRIFT_SAMPLE_COUNT),
        last |-> buf1[Len(buf1)].pts,
        dropped |-> st.dropped + Cardinality(ev),
        evicted |-> st.evicted \cup ev]

PushAudioMany(st, frames, t) ==
    LET buf1 == PushBackAll(st.buf, frames)
        ev   == Evicted(buf1, AUDIO_BUFFER_LIMIT)
    IN [buf |-> TrimFront(buf1, AUDIO_BUFFER_LIMIT),
        ring |-> TrimFront(PushBackAll(st.ring,
                              [i \in 1..Len(frames) |-> DriftSample(t, frames[i])]),
                           DRIFT_SAMPLE_COUNT),
        last |-> buf1[Len(buf1)].pts,
        evicted |-> st.evicted \cup ev]

\* frames: the sequence of frames given to consecutive push_video calls
push_video_calls(frames, t) ==
    LET st == PushVideoMany([buf |-> m_video_buffer, ring |-> m_video_drift_samples,
                             last |-> m_last_video_pts, dropped |-> 0, evicted |-> {}],
                            frames, t)
    IN /\ m_video_buffer' = st.buf
       /\ m_video_drift_samples' = st.ring
       /\ m_last_video_pts' = st.last
       /\ m_stats' = [m_stats EXCEPT !.frames_dropped = @ + st.dropped]
       /\ pushedV' = pushedV \o frames
       /\ lostV' = lostV \cup {[frame |-> f, cause |-> "overflow"] : f \in st.evicted}
       /\ UNCHANGED <<m_audio_buffer, m_audio_drift_samples, m_running, m_base_time,
                      m_last_audio_pts, m_config, ret, pushedA, tuples, lostA>>

push_audio_calls(frames, t) ==
    LET st == PushAudioMany([buf |-> m_audio_buffer, ring |-> m_audio_drift_samples,
                             last |-> m_last_audio_pts, evicted |-> {}],
                            frames, t)
    IN /\ m_audio_buffer' = st.buf
       /\ m_audio_drift_samples' = st.ring
       /\ m_last_audio_pts' = st.last
       /\ pushedA' = pushedA \o frames
       /\ lostA' = lostA \cup {[frame |-> f, cause |-> "overflow"] : f \in st.evicted}
       /\ UNCHANGED <<m_video_buffer, m_video_drift_samples, m_running, m_base_time,
                      m_last_video_pts, m_config, m_stats, ret, pushedV, tuples, lostV>>

VFrame(i, p, k) == [id |-> i, pts |-> p, keyframe |-> k]
AFrame(i, p) == [id |-> i, pts |-> p]

\* one push_video call
push_video ==
    /\ Len(pushedV) < MaxPushV
    /\ \E p \in PtsSet, k \in BOOLEAN, t \in ClockReadings :
          push_video_calls(<<VFrame(Len(pushedV) + 1, p, k)>>, t)

\* one push_audio call
push_audio ==
    /\ Len(pushedA) < MaxPushA
    /\ \E p \in PtsSet, t \in ClockReadings :
          push_audio_calls(<<AFrame(Len(pushedA) + 1, p)>>, t)

\* one push_video / push_audio call with a PTS of the two-value set
push_video_far ==
    /\ Len(pushedV) < MaxPushV
    /\ \E p \in BurstPts, k \in BOOLEAN, t \in ClockReadings :
          push_video_calls(<<VFrame(Len(pushedV) + 1, p, k)>>, t)

push_audio_far ==
    /\ Len(pushedA) < MaxPushA
    /\ \E p \in BurstPts, t \in ClockReadings :
          push_audio_calls(<<AFrame(Len(pushedA) + 1, p)>>, t)

\* the encoder runs ahead of the consumer: VideoBurst consecutive push_video
\* calls on a fresh stream (the first frame possibly a keyframe, one PTS)
push_video_burst ==
    /\ pushedV = <<>>
    /\ \E p \in BurstPts, k \in BOOLEAN, t \in ClockReadings :
          push_video_calls([i \in 1..VideoBurst |-> VFrame(i, p, k /\ i = 1)], t)

push_audio_burst ==
    /\ pushedA = <<>>
    /\ \E p \in BurstPts, t \in ClockReadings :
          push_audio_calls([i \in 1..AudioBurst |-> AFrame(i, p)], t)

\* one more push_video call (a non-keyframe) after a burst
push_video_full ==
    /\ Len(pushedV) >= VideoBurst
    /\ Len(pushedV) < VideoBurst + MaxOverflow
    /\ \E p \in BurstPts, t \in ClockReadings :
          push_video_calls(<<VFrame(Len(pushedV) + 1, p, FALSE)>>, t)

push_audio_full ==
    /\ Len(pushedA) >= AudioBurst
    /\ Len(pushedA) < AudioBurst + MaxOverflow
    /\ \E p \in BurstPts, t \in ClockReadings :
          push_audio_calls(<<AFrame(Len(pushedA) + 1, p)>>, t)

calculate_presentation_time_video_only ==
    m_last_video_pts
        - m_config.jitter_buffer_ms * 1000
        + m_config.target_offset_us
calculate_presentation_time ==
    Max(m_last_video_pts, m_last_audio_pts)
        - m_config.jitter_buffer_ms * 1000
        + m_config.target_offset_us

\* front() followed by pop_front()
TakeBack(buf) == [frame |-> buf[Len(buf)], rest |-> SubSeq(buf, 1, Len(buf) - 1)]
TakeFront(buf) == [frame |-> Head(buf), rest |-> Tail(buf)]

VideoSelectUncounted(buf, pt) ==
    IF buf = <<>> THEN [valid |-> FALSE, buf |-> buf, dropped |-> {}]
    ELSE LET video == TakeFront(buf).frame
             video_offset == video.pts - pt
         IN IF Abs(video_offset) < m_config.max_desync_us \/ video.keyframe
            THEN [valid |-> TRUE, frame |-> video, buf |-> TakeFront(buf).rest, dropped |-> {}]
            ELSE IF video_offset < 0 - m_config.max_desync_us
            THEN [valid |-> FALSE, buf |-> TakeFront(buf).rest, dropped |-> {}]
            ELSE [valid |-> FALSE, buf |-> buf, dropped |-> {}]
\* video selection of get_next: what happens to the head of m_video_buffer
VideoSelect(buf, pt) ==
    IF buf = <<>> THEN [valid |-> FALSE, buf |-> buf, dropped |-> {}]
    ELSE LET video == TakeFront(buf).frame
             video_offset == video.pts - pt
         IN IF Abs(video_offset) < m_config.max_desync_us \/ video.keyframe
            THEN [valid |-> TRUE, frame |-> video, buf |-> TakeFront(buf).rest, dropped |-> {}]
            ELSE IF video_offset < 0 - m_config.max_desync_us
            THEN [valid |-> FALSE, buf |-> TakeFront(buf).rest, dropped |-> {video}]
            ELSE [valid |-> FALSE, buf |-> buf, dropped |-> {}]

\* audio selection of get_next
AudioSelect(buf, pt) ==
    IF buf = <<>> THEN [valid |-> FALSE, buf |-> buf, dropped |-> {}]
    ELSE LET audio == TakeFront(buf).frame
             audio_offset == audio.pts - pt
         IN IF Abs(audio_offset) < m_config.max_desync_us * 2
            THEN [valid |-> TRUE, frame |-> audio, buf |-> TakeFront(buf).rest, dropped |-> {}]
            ELSE IF audio_offset < 0 - m_config.max_desync_us
            THEN [valid |-> FALSE, buf |-> TakeFront(buf).rest, dropped |-> {audio}]
            ELSE [valid |-> FALSE, buf |-> buf, dropped |-> {}]

\* correct_drift(): refreshes the drift estimates once both rings hold
\* enough samples
correct_drift(stats) ==
    IF Len(m_video_drift_samples) < DRIFT_MIN_SAMPLES
       \/ Len(m_audio_drift_samples) < DRIFT_MIN_SAMPLES
    THEN stats
    ELSE [stats EXCEPT !.drift_estimated = TRUE]

\* get_next past its wait: the tuple is built, returned and recorded
get_next_result ==
    LET pt == calculate_presentation_time
        v  == VideoSelect(m_video_buffer, pt)
        a  == AudioSelect(m_audio_buffer, pt)
        result == [valid |-> TRUE,
                   presentation_time |-> pt,
                   video_valid |-> v.valid,
                   video |-> IF v.valid THEN v.frame ELSE None,
                   audio_valid |-> a.valid,
                   audio |-> IF a.valid THEN a.frame ELSE None]
        stats1 == [m_stats EXCEPT !.frames_dropped = @ + Cardinality(v.dropped)]
        stats2 == IF v.valid /\ a.valid
                  THEN [stats1 EXCEPT !.audio_video_offset_us = a.frame.pts - v.frame.pts]
                  ELSE stats1
        stats3 == IF m_config.enable_drift_correction
                  THEN correct_drift(stats2) ELSE stats2
    IN /\ Len(tuples) < MaxTuples
       /\ m_video_buffer' = v.buf
       /\ m_audio_buffer' = a.buf
       /\ m_stats' = stats3
       /\ ret' = result
       /\ tuples' = Append(tuples, result)
       /\ lostV' = lostV \cup {[frame |-> f, cause |-> "late"] : f \in v.dropped}
       /\ lostA' = lostA \cup {[frame |-> f, cause |-> "late"] : f \in a.dropped}
       /\ UNCHANGED <<m_video_drift_samples, m_audio_drift_samples, m_running,
                      m_base_time, m_last_video_pts, m_last_audio_pts, m_config,
                      pushedV, pushedA>>

\* get_next returning std::nullopt
get_next_nullopt ==
    /\ ret' = None
    /\ UNCHANGED <<m_video_buffer, m_audio_buffer, m_stats, tuples, lostV, lostA>>
    /\ UNCHANGED <<m_video_drift_samples, m_audio_drift_samples, m_running,
                   m_base_time, m_last_video_pts, m_last_audio_pts, m_config,
                   pushedV, pushedA>>

\* std::optional<SyncedFrames> get_next(timeout_ms); the wait ends by
\* timeout when both buffers stay empty
get_next ==
    IF ~m_running \/ (m_video_buffer = <<>> /\ m_audio_buffer = <<>>)
    THEN get_next_nullopt
    ELSE get_next_result

start ==
    /\ m_running' = TRUE
    /\ \E t \in ClockReadings : m_base_time' = t
    /\ UNCHANGED <<m_video_buffer, m_audio_buffer, m_video_drift_samples,
                   m_audio_drift_samples, m_last_video_pts, m_last_audio_pts,
                   m_config, m_stats, ret, pushedV, pushedA, tuples, lostV, lostA>>

stop ==
    /\ m_running' = FALSE
    /\ UNCHANGED <<m_video_buffer, m_audio_buffer, m_video_drift_samples,
                   m_audio_drift_samples, m_base_time, m_last_video_pts,
                   m_last_audio_pts, m_config, m_stats, ret, pushedV, pushedA,
                   tuples, lostV, lostA>>

\* reset(); the histories kept for the properties start afresh as well
reset ==
    /\ m_video_buffer' = <<>>
    /\ m_audio_buffer' = <<>>
    /\ m_video_drift_samples' = <<>>
    /\ m_audio_drift_samples' = <<>>
    /\ m_base_time' = 0
    /\ m_last_video_pts' = 0
    /\ m_last_audio_pts' = 0
    /\ m_stats' = SyncStats
    /\ pushedV' = <<>>
    /\ pushedA' = <<>>
    /\ tuples' = <<>>
    /\ lostV' = {}
    /\ lostA' = {}
    /\ ret' = None
    /\ UNCHANGED <<m_running, m_config>>

\* offsets given to adjust_offset
OffsetSet == {30000}

\* adjust_offset(offset_us)
adjust_offset ==
    /\ \E offset_us \in OffsetSet :
          m_config' = [m_config EXCEPT !.target_offset_us = offset_us]
    /\ UNCHANGED <<m_video_buffer, m_audio_buffer, m_video_drift_samples,
                   m_audio_drift_samples, m_running, m_base_time, m_last_video_pts,
                   m_last_audio_pts, m_stats, ret, pushedV, pushedA, tuples,
                   lostV, lostA>>

SyncNext ==
    \/ push_video
    \/ push_audio
    \/ get_next
    \/ start
    \/ stop
    \/ reset

\* pushes with PTS 250 ms apart, on a synchronizer that is not stopped
OrderNext ==
    \/ push_video_far
    \/ push_audio_far
    \/ get_next
    \/ start

\* one push_video / push_audio call of a short stream
push_video_short ==
    /\ Len(pushedV) < MaxOffsetPush
    /\ \E p \in BurstPts, k \in BOOLEAN, t \in ClockReadings :
          push_video_calls(<<VFrame(Len(pushedV) + 1, p, k)>>, t)

push_audio_short ==
    /\ Len(pushedA) < MaxOffsetPush
    /\ \E p \in BurstPts, t \in ClockReadings :
          push_audio_calls(<<AFrame(Len(pushedA) + 1, p)>>, t)

\* the target offset is adjusted between pushes and get_next calls
OffsetNext ==
    \/ push_video_short
    \/ push_audio_short
    \/ get_next
    \/ start
    \/ reset
    \/ adjust_offset

\* PTS values of streams whose PTS never decrease
ProgressPts == {0, 150000, 400000}

\* one push_video / push_audio call with a PTS not below the stream's last
push_video_ordered ==
    /\ Len(pushedV) < MaxPushV
    /\ \E p \in ProgressPts, k \in BOOLEAN, t \in ClockReadings :
          /\ pushedV # <<>> => p >= pushedV[Len(pushedV)].pts
          /\ push_video_calls(<<VFrame(Len(pushedV) + 1, p, k)>>, t)

push_audio_ordered ==
    /\ Len(pushedA) < MaxPushA
    /\ \E p \in ProgressPts, t \in ClockReadings :
          /\ pushedA # <<>> => p >= pushedA[Len(pushedA)].pts
          /\ push_audio_calls(<<AFrame(Len(pushedA) + 1, p)>>, t)

\* get_next called over and over by the sender loop: as get_next, with
\* only the last tuple kept in tuples
get_next_polled ==
    IF ~m_running \/ (m_video_buffer = <<>> /\ m_audio_buffer = <<>>)
    THEN get_next_nullopt
    ELSE LET pt == calculate_presentation_time
             v  == VideoSelect(m_video_buffer, pt)
             a  == AudioSelect(m_audio_buffer, pt)
             result == [valid |-> TRUE,
                        presentation_time |-> pt,
                        video_valid |-> v.valid,
                        video |-> IF v.valid THEN v.frame ELSE None,
                        audio_valid |-> a.valid,
                        audio |-> IF a.valid THEN a.frame ELSE None]
             stats1 == [m_stats EXCEPT !.frames_dropped = @ + Cardinality(v.dropped)]
             stats2 == IF v.valid /\ a.valid
                       THEN [stats1 EXCEPT !.audio_video_offset_us = a.frame.pts - v.frame.pts]
                       ELSE stats1
             stats3 == IF m_config.enable_drift_correction
                       THEN correct_drift(stats2) ELSE stats2
         IN /\ m_video_buffer' = v.buf
            /\ m_audio_buffer' = a.buf
            /\ m_stats' = stats3
            /\ ret' = result
            /\ tuples' = <<result>>
            /\ lostV' = lostV \cup {[frame |-> f, cause |-> "late"] : f \in v.dropped}
            /\ lostA' = lostA \cup {[frame |-> f, cause |-> "late"] : f \in a.dropped}
            /\ UNCHANGED <<m_video_drift_samples, m_audio_drift_samples, m_running,
                           m_base_time, m_last_video_pts, m_last_audio_pts, m_config,
                           pushedV, pushedA>>

\* ordered streams are pushed while the sender loop polls get_next
ProgressNext ==
    \/ push_video_ordered
    \/ push_audio_ordered
    \/ get_next_polled
    \/ start

\* the video producer outruns the consumer and fills m_video_buffer
VideoOverflowNext ==
    \/ push_video_burst
    \/ push_video_full
    \/ get_next
    \/ start
    \/ reset

\* the producers outrun the consumer and fill the buffers
OverflowNext ==
    \/ push_video_burst
    \/ push_audio_burst
    \/ push_video_full
    \/ push_audio_full
    \/ get_next
    \/ start
    \/ reset

\* ======================================================================
\*  Receiver: streamlinux::MasterClock, JitterBuffer, AVSynchronizer
\*  (android-client/app/src/main/cpp/sync/av_sync.cpp)
\* ======================================================================
\* bounds of the receiver model
StartTime == 100000
TickStep == 20000
MaxTicks == 1
MaxJitterSamples == 1
MaxDropped == 1
MaxDriftSamples == 2

\* steps of the steady clock between two calls
TickSet == {TickStep}
\* PTS values reported to updateVideoTime / updateAudioTime
UpdPtsSet == {60000, 120000}
\* PTS values of the frames offered to checkVideoSync
FramePtsSet == {0, 60000, 120000, 180000, 240000}
\* speed factors (per-mille) offered to MasterClock::adjustSpeed
FactorSet == {0 - 1000, 0, 500, 980, 1000, 1020, 2000}

SYNC_THRESHOLD_US == 40000
DROP_THRESHOLD_US == 100000
REPEAT_THRESHOLD_US == 0 - 40000
SPEED_MIN == 900
SPEED_MAX == 1100
SPEED_NOMINAL == 1000
SPEED_SLOW == 980
SPEED_FAST == 1020
VIDEO_JITTER_SIZE == 20
AUDIO_JITTER_SIZE == 50

VARIABLES
    now,                                \* std::chrono::steady_clock::now()
    m_basePts, m_baseTime, m_speed,     \* MasterClock
    m_clockSource,
    m_videoJitter, m_audioJitter,       \* JitterBuffer: samples and estimate
    rx_stats,                           \* AVSynchronizer::m_stats
    lastSync                            \* the last call that decided about a frame

rxVars == <<now, m_basePts, m_baseTime, m_speed, m_clockSource,
            m_videoJitter, m_audioJitter, rx_stats, lastSync>>

RxSyncStats == [videoPts |-> 0, audioPts |-> 0, avDrift |-> 0, networkJitter |-> 0,
                framesDropped |-> 0, framesRepeated |-> 0,
                playbackSpeed |-> SPEED_NOMINAL]

JitterBufferInit == [m_samples |-> <<>>, m_jitterEstimate |-> 0]

RxInit ==
    /\ now = StartTime
    /\ m_basePts = 0
    /\ m_baseTime = StartTime
    /\ m_speed = SPEED_NOMINAL
    /\ m_clockSource = "Audio"
    /\ m_videoJitter = JitterBufferInit
    /\ m_audioJitter = JitterBufferInit
    /\ rx_stats = RxSyncStats
    /\ lastSync = [called |-> FALSE]

\* static_cast<int64_t>(elapsed * m_speed), elapsed >= 0
Scaled(elapsed, speed) == (elapsed * speed) \div 1000

\* std::clamp(v, lo, hi)
ClampNoUpper(v, lo, hi) == IF v < lo THEN lo ELSE v
Clamp(v, lo, hi) == IF v < lo THEN lo ELSE IF hi < v THEN hi ELSE v

\* MasterClock::getTime
getTime == m_basePts + Scaled(now - m_baseTime, m_speed)

\* MasterClock::setTime
setTime(pts) ==
    /\ m_basePts' = pts
    /\ m_baseTime' = now
    /\ m_speed' = SPEED_NOMINAL

adjustSpeed_keepBase(factor) ==
    /\ m_speed' = Clamp(factor, SPEED_MIN, SPEED_MAX)
    /\ UNCHANGED <<m_basePts, m_baseTime>>

\* MasterClock::adjustSpeed
adjustSpeed(factor) ==
    /\ m_basePts' = m_basePts + Scaled(now - m_baseTime, m_speed)
    /\ m_baseTime' = now
    /\ m_speed' = Clamp(factor, SPEED_MIN, SPEED_MAX)

\* MasterClock::reset
MasterClock_reset ==
    /\ m_basePts' = 0
    /\ m_baseTime' = now
    /\ m_speed' = SPEED_NOMINAL

Pow16(k) == IF k = 0 THEN 1 ELSE IF k = 1 THEN 16 ELSE IF k = 2 THEN 256 ELSE 4096

\* JitterBuffer::updateJitterEstimate: jitter = jitter * 0.9375 + deviation * 0.0625
\* over the sample pairs, starting from 0; JitterNum(s, k) / 16^k is the
\* value of jitter after k pairs
RECURSIVE JitterNum(_, _)
JitterNum(samples, k) ==
    IF k = 0 THEN 0
    ELSE LET expectedDelta == samples[k + 1].pts - samples[k].pts
             actualDelta == samples[k + 1].arrivalTime - samples[k].arrivalTime
             deviation == Abs(actualDelta - expectedDelta)
         IN 15 * JitterNum(samples, k - 1) + deviation * Pow16(k - 1)

updateJitterEstimate(samples, old) ==
    IF Len(samples) < 2 THEN old
    ELSE JitterNum(samples, Len(samples) - 1) \div Pow16(Len(samples) - 1)

\* JitterBuffer::addSample
addSample(jb, timestamp, maxSize) ==
    LET arrivalTime == now
        s1 == Append(jb.m_samples, [pts |-> timestamp, arrivalTime |-> arrivalTime])
        s2 == IF Len(s1) > maxSize THEN Tail(s1) ELSE s1
    IN [m_samples |-> s2,
        m_jitterEstimate |-> updateJitterEstimate(s2, jb.m_jitterEstimate)]

\* AVSynchronizer::updateDrift, on the statistics st and the jitter buffers
updateDrift(st, vj, aj) ==
    LET st1 == IF st.videoPts > 0 /\ st.audioPts > 0
               THEN [st EXCEPT !.avDrift = st.videoPts - st.audioPts]
               ELSE st
    IN [st1 EXCEPT !.networkJitter = Max(vj.m_jitterEstimate, aj.m_jitterEstimate)]

\* updateVideoTime(pts), for at most limit samples in the video jitter buffer
updateVideoTimeUpTo(limit) ==
    /\ Len(m_videoJitter.m_samples) < limit
    /\ \E pts \in UpdPtsSet :
        LET vj == addSample(m_videoJitter, pts, VIDEO_JITTER_SIZE)
        IN /\ m_videoJitter' = vj
           /\ IF m_clockSource = "Video"
              THEN setTime(pts)
              ELSE UNCHANGED <<m_basePts, m_baseTime, m_speed>>
           /\ rx_stats' = updateDrift([rx_stats EXCEPT !.videoPts = pts], vj, m_audioJitter)
           /\ UNCHANGED <<now, m_clockSource, m_audioJitter, lastSync>>

updateVideoTime == updateVideoTimeUpTo(MaxJitterSamples)

\* updateAudioTime(pts), for at most limit samples in the audio jitter buffer
updateAudioTimeUpTo(limit) ==
    /\ Len(m_audioJitter.m_samples) < limit
    /\ \E pts \in UpdPtsSet :
        LET aj == addSample(m_audioJitter, pts, AUDIO_JITTER_SIZE)
        IN /\ m_audioJitter' = aj
           /\ IF m_clockSource = "Audio"
              THEN setTime(pts)
              ELSE UNCHANGED <<m_basePts, m_baseTime, m_speed>>
           /\ rx_stats' = updateDrift([rx_stats EXCEPT !.audioPts = pts], m_videoJitter, aj)
           /\ UNCHANGED <<now, m_clockSource, m_videoJitter, lastSync>>

updateAudioTime == updateAudioTimeUpTo(MaxJitterSamples)

setClockSource ==
    \E source \in {"Audio", "Video", "External"} :
        /\ m_clockSource' = source
        /\ UNCHANGED <<now, m_basePts, m_baseTime, m_speed, m_videoJitter,
                       m_audioJitter, rx_stats, lastSync>>

\* the value returned by checkVideoSync for diff = framePts - masterTime
\* (0, 1, -1), by the name its documentation gives it
SyncDecision(diff) ==
    IF diff > REPEAT_THRESHOLD_US /\ diff < SYNC_THRESHOLD_US THEN "display"
    ELSE IF diff <= REPEAT_THRESHOLD_US THEN "delay"
    ELSE IF diff > DROP_THRESHOLD_US THEN "drop"
    ELSE "display"

\* checkVideoSync(framePts); isKeyFrame is the flag of the frame the caller
\* asks about, which the function is not told
checkVideoSync ==
    /\ rx_stats.framesDropped < MaxDropped
    /\ \E framePts \in FramePtsSet, isKeyFrame \in BOOLEAN :
        LET masterTime == getTime
            diff == framePts - masterTime
            r == SyncDecision(diff)
        IN /\ rx_stats' = IF r = "drop"
                          THEN [rx_stats EXCEPT !.framesDropped = @ + 1]
                          ELSE rx_stats
           /\ lastSync' = [called |-> TRUE, fn |-> "checkVideoSync", diff |-> diff,
                           keyframe |-> isKeyFrame, result |-> r,
                           dropped |-> rx_stats'.framesDropped - rx_stats.framesDropped]
           /\ UNCHANGED <<now, m_basePts, m_baseTime, m_speed, m_clockSource,
                          m_videoJitter, m_audioJitter>>

\* a drift correction that leaves the speed where the last correction put it
correctDrift_keepSpeed ==
    LET drift == rx_stats.avDrift
        correction == IF Abs(drift) > SYNC_THRESHOLD_US
                      THEN (IF drift > 0 THEN SPEED_SLOW ELSE SPEED_FAST)
                      ELSE rx_stats.playbackSpeed
    IN /\ adjustSpeed(correction)
       /\ rx_stats' = [rx_stats EXCEPT !.playbackSpeed = correction]
       /\ UNCHANGED <<now, m_clockSource, m_videoJitter, m_audioJitter, lastSync>>

correctDrift ==
    LET drift == rx_stats.avDrift
        correction == IF Abs(drift) > SYNC_THRESHOLD_US
                      THEN (IF drift > 0 THEN SPEED_SLOW ELSE SPEED_FAST)
                      ELSE SPEED_NOMINAL
    IN /\ adjustSpeed(correction)
       /\ rx_stats' = [rx_stats EXCEPT !.playbackSpeed = correction]
       /\ UNCHANGED <<now, m_clockSource, m_videoJitter, m_audioJitter, lastSync>>

\* AVSynchronizer::reset
rx_reset ==
    /\ MasterClock_reset
    /\ m_videoJitter' = JitterBufferInit
    /\ m_audioJitter' = JitterBufferInit
    /\ rx_stats' = RxSyncStats
    /\ UNCHANGED <<now, m_clockSource, lastSync>>

\* the steady clock advances
Tick ==
    /\ now < StartTime + MaxTicks * TickStep
    /\ \E d \in TickSet : now' = now + d
    /\ UNCHANGED <<m_basePts, m_baseTime, m_speed, m_clockSource, m_videoJitter,
                   m_audioJitter, rx_stats, lastSync>>

\* direct use of the MasterClock operations
MasterClock_setTime ==
    /\ \E pts \in UpdPtsSet : setTime(pts)
    /\ UNCHANGED <<now, m_clockSource, m_videoJitter, m_audioJitter, rx_stats, lastSync>>

MasterClock_adjustSpeed ==
    /\ \E factor \in FactorSet : adjustSpeed(factor)
    /\ UNCHANGED <<now, m_clockSource, m_videoJitter, m_audioJitter, rx_stats, lastSync>>

MasterClock_resetCall ==
    /\ MasterClock_reset
    /\ UNCHANGED <<now, m_clockSource, m_videoJitter, m_audioJitter, rx_stats, lastSync>>

RxNext ==
    \/ Tick
    \/ updateVideoTime
    \/ updateAudioTime
    \/ setClockSource
    \/ checkVideoSync
    \/ correctDrift
    \/ rx_reset

\* a stream whose drift changes: several timestamp updates per stream
drift_updateVideoTime == updateVideoTimeUpTo(MaxDriftSamples)

drift_updateAudioTime == updateAudioTimeUpTo(MaxDriftSamples)

DriftNext ==
    \/ Tick
    \/ drift_updateVideoTime
    \/ drift_updateAudioTime
    \/ correctDrift
    \/ rx_reset

\* ----------------------------------------------------------------------
\*  A change of the clock source: setClockSource, then the first timestamp
\*  update of the new source, which is the call that moves the master clock.
\*  switched records the value of getTime() right before and right after
\*  that call.
\* ----------------------------------------------------------------------
VARIABLE switched

switchVars == <<switched>>

SwitchInit == switched = [state |-> "none"]

switch_setClockSource ==
    /\ setClockSource
    /\ switched' = IF m_clockSource' # m_clockSource
                   THEN [state |-> "pending"]
                   ELSE switched

\* getTime() after the step
getTimeAfter == m_basePts' + Scaled(now' - m_baseTime', m_speed')

SwitchCompleted(source) ==
    IF switched.state = "pending" /\ m_clockSource = source
    THEN [state |-> "done", source |-> source, before |-> getTime, after |-> getTimeAfter]
    ELSE switched

switch_updateVideoTime ==
    /\ drift_updateVideoTime
    /\ switched' = SwitchCompleted("Video")

switch_updateAudioTime ==
    /\ drift_updateAudioTime
    /\ switched' = SwitchCompleted("Audio")

switch_Tick == Tick /\ UNCHANGED switched

SwitchNext ==
    \/ switch_Tick
    \/ switch_setClockSource
    \/ switch_updateVideoTime
    \/ switch_updateAudioTime

ClockNext ==
    \/ Tick
    \/ updateVideoTime
    \/ updateAudioTime
    \/ correctDrift
    \/ MasterClock_setTime
    \/ MasterClock_adjustSpeed
    \/ MasterClock_resetCall

\* A long stream into the video JitterBuffer.  updateJitterEstimate folds
\* jitter = jitter * 0.9375 + deviation * 0.0625 over the pairs of the window
\* in double arithmetic; JitterFold carries the value in units of 1/1024
\* microsecond and rounds down at every pair, which is below the double by
\* less than 1/50 microsecond after the 19 pairs of a full window.
MaxStream == 22
ArrivalSteps == {20000, 120000}

RECURSIVE JitterFold(_, _)
JitterFold(samples, k) ==
    IF k = 0 THEN 0
    ELSE LET expectedDelta == samples[k + 1].pts - samples[k].pts
             actualDelta == samples[k + 1].arrivalTime - samples[k].arrivalTime
             deviation == Abs(actualDelta - expectedDelta)
         IN (15 * JitterFold(samples, k - 1) + deviation * 1024) \div 16

\* JitterBuffer::addSample with the estimate of a window of any length
addSampleWindow(jb, timestamp, maxSize) ==
    LET s1 == Append(jb.m_samples, [pts |-> timestamp, arrivalTime |-> now])
        s2 == IF Len(s1) > maxSize THEN Tail(s1) ELSE s1
    IN [m_samples |-> s2,
        m_jitterEstimate |-> IF Len(s2) < 2 THEN jb.m_jitterEstimate
                             ELSE JitterFold(s2, Len(s2) - 1) \div 1024]

\* JitterBuffer::getOptimalBufferDelay
getOptimalBufferDelay(jb) == jb.m_jitterEstimate * 2

\* PTS and arrival time of the newest sample of the video jitter buffer
LastSample ==
    IF m_videoJitter.m_samples = <<>> THEN [pts |-> 0, arrivalTime |-> 0]
    ELSE m_videoJitter.m_samples[Len(m_videoJitter.m_samples)]

\* the next frame of the stream arrives: time has passed since the last one
stream_arrive ==
    /\ now = LastSample.arrivalTime \/ m_videoJitter.m_samples = <<>>
    /\ \E d \in ArrivalSteps :
          /\ now + d <= StartTime + MaxStream * 20000 + 100000
          /\ now' = now + d
    /\ UNCHANGED <<m_basePts, m_baseTime, m_speed, m_clockSource, m_videoJitter,
                   m_audioJitter, rx_stats, lastSync>>

\* its PTS, 20 ms after the one before, is given to the jitter buffer
stream_addSample ==
    /\ now > LastSample.arrivalTime
    /\ LastSample.pts < MaxStream * 20000
    /\ m_videoJitter' = addSampleWindow(m_videoJitter, LastSample.pts + 20000,
                                        VIDEO_JITTER_SIZE)
    /\ UNCHANGED <<now, m_basePts, m_baseTime, m_speed, m_clockSource, m_audioJitter,
                   rx_stats, lastSync>>

StreamNext ==
    \/ stream_arrive
    \/ stream_addSample

\* the steady clock advances by a few microseconds, so that elapsed * m_speed
\* has a fractional part
MaxElapsed == 20
AdvanceSet == {3, 7}

ClockAdvance ==
    /\ \E d \in AdvanceSet :
          /\ now + d <= StartTime + MaxElapsed
          /\ now' = now + d
    /\ UNCHANGED <<m_basePts, m_baseTime, m_speed, m_clockSource, m_videoJitter,
                   m_audioJitter, rx_stats, lastSync>>

AdjustNext ==
    \/ ClockAdvance
    \/ MasterClock_setTime
    \/ MasterClock_adjustSpeed
    \/ MasterClock_resetCall

\* ======================================================================
\*  Receiver: streamlinux::VideoDecoder (decoder/video_decoder.cpp) and the
\*  JNI entry points with their own decoder and clock (streamlinux_jni.cpp)
\* ======================================================================
\* PTS values of the frames handed to the decoders
DecPtsSet == {60000, 120000}
\* what the codec answers to one decode call
CodecOutcomes == {"ok", "try_again_later", "dequeue_error", "buffer_too_small",
                  "queue_failed"}

LATE_THRESHOLD_US == 30000

VARIABLES
    dec,        \* streamlinux::VideoDecoder: m_codec, m_initialized, m_running, m_stats
    g_state     \* JNI StreamState: videoDecoder, synchronizer, connected

decVars == <<dec, g_state>>

DecoderStats == [framesDropped |-> 0, lastPts |-> 0]

DecInit ==
    /\ dec = [m_codec |-> FALSE, m_initialized |-> FALSE, m_running |-> FALSE,
              m_stats |-> DecoderStats]
    /\ g_state = [exists |-> FALSE]

\* VideoDecoder::initialize: creates the codec unless already initialized
VideoDecoder_initialize ==
    /\ \E created \in BOOLEAN :
          dec' = IF dec.m_initialized THEN dec ELSE [dec EXCEPT !.m_codec = created]
    /\ UNCHANGED <<rxVars, g_state>>

\* VideoDecoder::configure: configures and starts the codec
VideoDecoder_configure ==
    /\ \E configured \in BOOLEAN, started \in BOOLEAN :
          dec' = IF dec.m_codec /\ configured /\ started
                 THEN [dec EXCEPT !.m_initialized = TRUE, !.m_running = TRUE]
                 ELSE dec
    /\ UNCHANGED <<rxVars, g_state>>

\* VideoDecoder::decode(data, size, pts, isKeyFrame)
VideoDecoder_decode ==
    /\ dec.m_stats.framesDropped < MaxDropped
    /\ \E pts \in DecPtsSet, isKeyFrame \in BOOLEAN, outcome \in CodecOutcomes :
        /\ IF ~dec.m_initialized \/ ~dec.m_running
           THEN /\ dec' = dec
                /\ lastSync' = [called |-> TRUE, fn |-> "VideoDecoder::decode", diff |-> 0,
                                keyframe |-> isKeyFrame, result |-> "rejected", dropped |-> 0]
           ELSE IF outcome = "try_again_later"
           THEN /\ dec' = [dec EXCEPT !.m_stats.framesDropped = @ + 1]
                /\ lastSync' = [called |-> TRUE, fn |-> "VideoDecoder::decode", diff |-> 0,
                                keyframe |-> isKeyFrame, result |-> "drop", dropped |-> 1]
           ELSE IF outcome # "ok"
           THEN /\ dec' = dec
                /\ lastSync' = [called |-> TRUE, fn |-> "VideoDecoder::decode", diff |-> 0,
                                keyframe |-> isKeyFrame, result |-> "failed", dropped |-> 0]
           ELSE /\ dec' = [dec EXCEPT !.m_stats.lastPts = pts]
                /\ lastSync' = [called |-> TRUE, fn |-> "VideoDecoder::decode", diff |-> 0,
                                keyframe |-> isKeyFrame, result |-> "decoded", dropped |-> 0]
        /\ UNCHANGED <<now, m_basePts, m_baseTime, m_speed, m_clockSource,
                       m_videoJitter, m_audioJitter, rx_stats, g_state>>

\* VideoDecoder::release
VideoDecoder_release ==
    /\ dec' = [m_codec |-> FALSE, m_initialized |-> FALSE, m_running |-> FALSE,
               m_stats |-> DecoderStats]
    /\ UNCHANGED <<rxVars, g_state>>

\* Java_..._NativeDecoder_initialize: a new StreamState; the decoder is
\* "null" when the window could not be obtained, "idle" when its codec
\* could not be created, configured or started
jni_initialize ==
    /\ \E outcome \in {"window_failed", "video_failed", "audio_failed", "ok"} :
          g_state' = [exists |-> TRUE,
                      videoDecoder |-> IF outcome = "window_failed" THEN "null"
                                       ELSE IF outcome = "video_failed" THEN "idle"
                                       ELSE "running",
                      m_lastPts |-> 0,
                      connected |-> (outcome = "ok"),
                      m_masterClock |-> 0,
                      m_clockSetTime |-> 0]
    /\ UNCHANGED <<rxVars, dec>>

\* Java_..._NativeDecoder_release
jni_release ==
    /\ g_state' = [exists |-> FALSE]
    /\ UNCHANGED <<rxVars, dec>>

\* AVSynchronizer::calculateDelay of streamlinux_jni.cpp
calculateDelay(framePts) ==
    framePts - (g_state.m_masterClock + (now - g_state.m_clockSetTime))

shouldDropFrame(framePts) == calculateDelay(framePts) < 0 - LATE_THRESHOLD_US

\* Java_..._NativeDecoder_decodeVideoFrame(data, pts, isKeyFrame); rendered
\* tells whether the codec has delivered the frame when processOutput runs
jni_decodeVideoFrame ==
    \E pts \in DecPtsSet, isKeyFrame \in BOOLEAN, outcome \in CodecOutcomes,
       rendered \in BOOLEAN :
        /\ IF ~g_state.exists
           THEN /\ g_state' = g_state
                /\ lastSync' = [called |-> TRUE, fn |-> "decodeVideoFrame", diff |-> 0,
                                keyframe |-> isKeyFrame, result |-> "rejected", dropped |-> 0]
           ELSE IF g_state.videoDecoder = "null"
           THEN /\ g_state' = g_state
                /\ lastSync' = [called |-> TRUE, fn |-> "decodeVideoFrame", diff |-> 0,
                                keyframe |-> isKeyFrame, result |-> "rejected", dropped |-> 0]
           ELSE IF ~isKeyFrame /\ shouldDropFrame(pts)
           THEN /\ g_state' = g_state
                /\ lastSync' = [called |-> TRUE, fn |-> "decodeVideoFrame",
                                diff |-> calculateDelay(pts),
                                keyframe |-> isKeyFrame, result |-> "drop", dropped |-> 0]
           ELSE LET ok == g_state.videoDecoder = "running"
                          /\ outcome \notin {"try_again_later", "dequeue_error",
                                             "buffer_too_small"}
                    g1 == IF ok /\ rendered
                          THEN [g_state EXCEPT !.m_lastPts = pts] ELSE g_state
                IN /\ g_state' = IF isKeyFrame
                                 THEN [g1 EXCEPT !.m_masterClock = pts,
                                                 !.m_clockSetTime = now]
                                 ELSE g1
                   /\ lastSync' = [called |-> TRUE, fn |-> "decodeVideoFrame",
                                   diff |-> calculateDelay(pts), keyframe |-> isKeyFrame,
                                   result |-> IF ok THEN "decoded" ELSE "failed",
                                   dropped |-> 0]
        /\ UNCHANGED <<now, m_basePts, m_baseTime, m_speed, m_clockSource,
                       m_videoJitter, m_audioJitter, rx_stats, dec>>

DecodeNext ==
    \/ Tick /\ UNCHANGED decVars
    \/ checkVideoSync /\ UNCHANGED decVars
    \/ VideoDecoder_initialize
    \/ VideoDecoder_configure
    \/ VideoDecoder_decode
    \/ VideoDecoder_release
    \/ jni_initialize
    \/ jni_release
    \/ jni_decodeVideoFrame

\* ======================================================================
\*  Sender: stream_linux::ControlChannel (linux-host/src/control)
\* ======================================================================
\* bounds of the control-channel model
MaxCalls == 2
MaxSent == 1
MaxCtlTicks == 1

Peers == {"P1", "P2"}
MsgTypes == {"Pause", "Resume", "SetResolution", "SetBitrate", "SetQuality",
             "SelectMonitor", "RequestKeyframe", "Ping", "Pong"}
SeqSet == {1, 2}

\* the text after a key's colon: nothing (key absent), a quoted string, or a
\* JSON number written as its integer digits and a decimal exponent
\* (5000000 is Num(5000000), 100000e4 is NumExp(100000, 4))
Absent == [kind |-> "absent"]
Quoted == [kind |-> "string"]
NumExp(n, e) == [kind |-> "number", digits |-> n, exponent |-> e]
Num(n) == NumExp(n, 0)
Pow10(e) == IF e = 0 THEN 1 ELSE IF e = 1 THEN 10 ELSE IF e = 2 THEN 100
            ELSE IF e = 3 THEN 1000 ELSE 10000
\* the number a JSON number stands for
JsonValue(field) == field.digits * Pow10(field.exponent)
\* std::stol on the text of a number: the leading integer digits
stol(field) == field.digits
\* a JSON payload, by what parse_message looks at: its size, its first and
\* last character, the "type" key and the numeric fields
Payload(size, braces, type, w, h, b, f) ==
    [size |-> size, braces |-> braces, has_type |-> type,
     width |-> w, height |-> h, bitrate |-> b, fps |-> f]
PayloadSet ==
    {Payload("empty", FALSE, FALSE, Absent, Absent, Absent, Absent),
     Payload("too_large", TRUE, TRUE, Absent, Absent, Num(5000000), Absent),
     Payload("ok", TRUE, TRUE, Absent, Absent, Num(5000000), Absent),
     Payload("ok", TRUE, TRUE, Absent, Absent, Num(50), Absent),
     Payload("ok", TRUE, TRUE, Absent, Absent, NumExp(100000, 4), Absent),
     Payload("ok", TRUE, TRUE, Absent, Absent, Quoted, Absent),
     Payload("ok", TRUE, TRUE, Num(1920), Num(1080), Absent, Absent),
     Payload("ok", TRUE, TRUE, Num(32), Num(1080), Absent, Absent),
     Payload("ok", TRUE, TRUE, Num(1920), Num(5000), Absent, Absent)}

VARIABLES
    m_transport, m_handler,          \* TRUE when the pointer is not null
    m_authorized_peer_id,            \* declared, never assigned
    m_last_ping_sequence, m_last_ping_time, m_rtt_ms,
    ctl_now,                         \* Clock::now(), milliseconds
    crashed,                         \* the process died on a null pointer
    handler_calls,                   \* the IControlHandler calls made, in order
    sent,                            \* the messages given to send_control, in order
    last_in                          \* the last message given to process_message

ctlVars == <<m_transport, m_handler, m_authorized_peer_id, m_last_ping_sequence,
             m_last_ping_time, m_rtt_ms, ctl_now, crashed, handler_calls, sent,
             last_in>>

CtlInit ==
    /\ m_transport = FALSE
    /\ m_handler = FALSE
    /\ m_authorized_peer_id = ""
    /\ m_last_ping_sequence = 0
    /\ m_last_ping_time = 0
    /\ m_rtt_ms = 0
    /\ ctl_now = 1000
    /\ crashed = FALSE
    /\ handler_calls = <<>>
    /\ sent = <<>>
    /\ last_in = [seen |-> FALSE]

\* ControlChannel::initialize(transport)
ctl_initialize ==
    /\ ~crashed
    /\ \E transport \in BOOLEAN :
          m_transport' = IF transport THEN TRUE ELSE m_transport
    /\ UNCHANGED <<m_handler, m_authorized_peer_id, m_last_ping_sequence,
                   m_last_ping_time, m_rtt_ms, ctl_now, crashed, handler_calls, sent,
                   last_in>>

\* ControlChannel::set_handler(handler)
set_handler ==
    /\ ~crashed
    /\ \E handler \in BOOLEAN : m_handler' = handler
    /\ UNCHANGED <<m_transport, m_authorized_peer_id, m_last_ping_sequence,
                   m_last_ping_time, m_rtt_ms, ctl_now, crashed, handler_calls, sent,
                   last_in>>

\* validate_number of parse_message
validate_number(field, min_val, max_val) ==
    IF field.kind = "absent" THEN TRUE
    ELSE IF field.kind # "number" THEN FALSE
    ELSE stol(field) >= min_val /\ stol(field) <= max_val

\* ControlChannel::parse_message(json): TRUE when it returns success
parse_message(json) ==
    /\ json.size = "ok"
    /\ json.braces
    /\ json.has_type
    /\ validate_number(json.width, 64, 7680)
    /\ validate_number(json.height, 64, 4320)
    /\ validate_number(json.bitrate, 100000, 100000000)
    /\ validate_number(json.fps, 1, 240)

\* StreamParameters(): what on_parameters_changed receives
StreamParameters == [width |-> 0, height |-> 0, bitrate |-> 0, fps |-> 0,
                     monitor_id |-> 0 - 1, quality |-> "Auto"]

\* the calls of process_message(msg) to the handler; from is the peer the
\* message came from, which process_message is not given
HandlerCalls(msg, from) ==
    IF msg.type = "Pause" THEN <<[call |-> "on_pause", from |-> from]>>
    ELSE IF msg.type = "Resume" THEN <<[call |-> "on_resume", from |-> from]>>
    ELSE IF msg.type \in {"SetResolution", "SetBitrate", "SetQuality", "SelectMonitor"}
    THEN IF parse_message(msg.payload)
         THEN <<[call |-> "on_parameters_changed", params |-> StreamParameters,
                 from |-> from, type |-> msg.type, payload |-> msg.payload]>>
         ELSE <<>>
    ELSE IF msg.type = "RequestKeyframe"
    THEN <<[call |-> "on_keyframe_requested", from |-> from]>>
    ELSE <<>>

\* ControlChannel::process_message(msg)
process_message ==
    /\ ~crashed
    /\ Len(handler_calls) < MaxCalls
    /\ Len(sent) < MaxSent
    /\ \E type \in MsgTypes, payload \in PayloadSet, sequence \in SeqSet, from \in Peers :
        LET msg == [type |-> type, payload |-> payload, sequence |-> sequence]
        IN /\ last_in' = [seen |-> TRUE, type |-> msg.type, sequence |-> msg.sequence,
                         sent_before |-> Len(sent)]
           /\ IF ~m_handler
              THEN UNCHANGED <<m_transport, m_handler, m_authorized_peer_id,
                               m_last_ping_sequence, m_last_ping_time, m_rtt_ms, ctl_now,
                               crashed, handler_calls, sent>>
              ELSE
                /\ handler_calls' = handler_calls \o HandlerCalls(msg, from)
                /\ IF msg.type = "Ping" /\ ~m_transport
                   THEN crashed' = TRUE /\ sent' = sent
                   ELSE /\ crashed' = crashed
                        /\ sent' = IF msg.type = "Ping"
                                   THEN Append(sent, [type |-> "Pong", kind |-> "pong",
                                                      echo_sequence |-> msg.sequence,
                                                      sequence |-> msg.sequence,
                                                      from |-> from])
                                   ELSE sent
                /\ m_rtt_ms' = IF msg.type = "Pong" THEN ctl_now - m_last_ping_time
                               ELSE m_rtt_ms
                /\ UNCHANGED <<m_transport, m_handler, m_authorized_peer_id,
                               m_last_ping_sequence, m_last_ping_time, ctl_now>>

\* ControlChannel::send_ping
send_ping ==
    /\ ~crashed
    /\ Len(sent) < MaxSent
    /\ m_last_ping_sequence' = m_last_ping_sequence + 1
    /\ m_last_ping_time' = ctl_now
    /\ IF m_transport
       THEN /\ sent' = Append(sent, [type |-> "Ping", kind |-> "ping",
                                     sequence |-> m_last_ping_sequence + 1])
            /\ crashed' = crashed
       ELSE sent' = sent /\ crashed' = TRUE
    /\ UNCHANGED <<m_transport, m_handler, m_authorized_peer_id, m_rtt_ms, ctl_now,
                   handler_calls, last_in>>

CtlTick ==
    /\ ~crashed
    /\ ctl_now < 1000 + MaxCtlTicks
    /\ ctl_now' = ctl_now + 1
    /\ UNCHANGED <<m_transport, m_handler, m_authorized_peer_id, m_last_ping_sequence,
                   m_last_ping_time, m_rtt_ms, crashed, handler_calls, sent, last_in>>

CtlNext ==
    \/ ctl_initialize
    \/ set_handler
    \/ process_message
    \/ send_ping
    \/ CtlTick

\* ======================================================================
\*  Sender: the threads of stream_linux::AVSynchronizer.  get_next, stop,
\*  start and reset are taken apart at the points where another thread can
\*  run: the condition-variable wait, the stores made without the mutex,
\*  and the steps reset makes while it holds the mutex.
\* ======================================================================
\* bound of the pushes made while other threads run
MaxThreadPush == 1
\* PTS of the video and audio frames pushed while other threads run
ThreadVideoPts == {250000}
ThreadAudioPts == {200000}

VARIABLES
    m_buffer_mutex,     \* the holder of m_buffer_mutex, or "none"
    gn_pc,              \* where the thread inside get_next is
    gn_expired,         \* the timeout of the current wait_for has passed
    gn_notified,        \* the waiter was notified while in the wait set
    have_frames,        \* the value wait_for returned
    stop_pc, start_pc, reset_pc,
    stop_seen,          \* stop() stored m_running while get_next was waiting
    partial,            \* an operation ran on buffers reset had half cleared
    stats_seen          \* the value the last get_stats returned

threadVars == <<m_buffer_mutex, gn_pc, gn_expired, gn_notified, have_frames,
                stop_pc, start_pc, reset_pc, stop_seen, partial, stats_seen>>

ThreadInit ==
    /\ m_buffer_mutex = "none"
    /\ gn_pc = "idle"
    /\ gn_expired = FALSE
    /\ gn_notified = FALSE
    /\ have_frames = FALSE
    /\ stop_pc = "idle"
    /\ start_pc = "idle"
    /\ reset_pc = "idle"
    /\ stop_seen = FALSE
    /\ partial = FALSE
    /\ stats_seen = SyncStats

\* the predicate of the wait in get_next
WaitPredicate ==
    (m_video_buffer # <<>> \/ m_audio_buffer # <<>>) \/ ~m_running

\* m_buffer_cv.notify_one / notify_all: reaches a thread in the wait set
Notify == IF gn_pc = "blocked" THEN TRUE ELSE gn_notified

\* reset has cleared some of what it clears and not yet the rest
ResetHalfDone == reset_pc \in {"times", "stats"}

\* get_next is called
gn_call ==
    /\ gn_pc = "idle"
    /\ Len(tuples) < MaxTuples
    /\ gn_pc' = "lock"
    /\ gn_expired' = FALSE
    /\ gn_notified' = FALSE
    /\ stop_seen' = FALSE
    /\ UNCHANGED <<syncVars, m_buffer_mutex, have_frames, stop_pc, start_pc,
                   reset_pc, partial, stats_seen>>

\* std::unique_lock lock(m_buffer_mutex)
gn_lock ==
    /\ gn_pc = "lock"
    /\ m_buffer_mutex = "none"
    /\ m_buffer_mutex' = "get_next"
    /\ gn_pc' = "test"
    /\ UNCHANGED <<syncVars, gn_expired, gn_notified, have_frames, stop_pc,
                   start_pc, reset_pc, stop_seen, partial, stats_seen>>

\* wait_for evaluates the predicate with the mutex held; when it is false
\* and the timeout has passed, wait_for returns the predicate's value
gn_test ==
    /\ gn_pc = "test"
    /\ IF WaitPredicate
       THEN have_frames' = TRUE /\ gn_pc' = "decide"
       ELSE IF gn_expired
       THEN have_frames' = FALSE /\ gn_pc' = "decide"
       ELSE have_frames' = have_frames /\ gn_pc' = "enter_wait"
    /\ partial' = (partial \/ ResetHalfDone)
    /\ UNCHANGED <<syncVars, m_buffer_mutex, gn_expired, gn_notified, stop_pc,
                   start_pc, reset_pc, stop_seen, stats_seen>>

\* the wait releases the mutex and puts the thread in the wait set
gn_block ==
    /\ gn_pc = "enter_wait"
    /\ gn_pc' = "blocked"
    /\ m_buffer_mutex' = "none"
    /\ gn_notified' = FALSE
    /\ UNCHANGED <<syncVars, gn_expired, have_frames, stop_pc, start_pc,
                   reset_pc, stop_seen, partial, stats_seen>>

\* the waiter leaves the wait set, notified or timed out, and takes the
\* mutex again
gn_wake ==
    /\ gn_pc = "blocked"
    /\ gn_notified \/ gn_expired
    /\ m_buffer_mutex = "none"
    /\ m_buffer_mutex' = "get_next"
    /\ gn_pc' = "test"
    /\ UNCHANGED <<syncVars, gn_expired, gn_notified, have_frames, stop_pc,
                   start_pc, reset_pc, stop_seen, partial, stats_seen>>

\* "if (!have_frames || !m_running) return std::nullopt;" and the rest of
\* get_next
gn_decide ==
    /\ gn_pc = "decide"
    /\ IF ~have_frames \/ ~m_running
       THEN get_next_nullopt
       ELSE get_next_result
    /\ gn_pc' = "idle"
    /\ m_buffer_mutex' = "none"
    /\ partial' = (partial \/ ResetHalfDone)
    /\ UNCHANGED <<gn_expired, gn_notified, have_frames, stop_pc, start_pc,
                   reset_pc, stop_seen, stats_seen>>

\* timeout_ms have passed since the call
gn_expire_never ==
    /\ FALSE
    /\ UNCHANGED <<syncVars, threadVars>>
gn_expire ==
    /\ gn_pc # "idle"
    /\ ~gn_expired
    /\ gn_expired' = TRUE
    /\ UNCHANGED <<syncVars, m_buffer_mutex, gn_pc, gn_notified, have_frames,
                   stop_pc, start_pc, reset_pc, stop_seen, partial, stats_seen>>

\* stop(): m_running = false ...
stop_store ==
    /\ stop_pc = "idle"
    /\ stop
    /\ stop_pc' = "notify"
    /\ stop_seen' = (stop_seen \/ gn_pc \in {"enter_wait", "blocked"})
    /\ UNCHANGED <<m_buffer_mutex, gn_pc, gn_expired, gn_notified, have_frames,
                   start_pc, reset_pc, partial, stats_seen>>

\* ... m_buffer_cv.notify_all()
stop_notify ==
    /\ stop_pc = "notify"
    /\ stop_pc' = "idle"
    /\ gn_notified' = Notify
    /\ UNCHANGED <<syncVars, m_buffer_mutex, gn_pc, gn_expired, have_frames,
                   start_pc, reset_pc, stop_seen, partial, stats_seen>>

\* start(): m_running = true ...
start_run ==
    /\ start_pc = "idle"
    /\ m_running' = TRUE
    /\ start_pc' = "base"
    /\ UNCHANGED <<m_video_buffer, m_audio_buffer, m_video_drift_samples,
                   m_audio_drift_samples, m_base_time, m_last_video_pts,
                   m_last_audio_pts, m_config, m_stats, ret, pushedV, pushedA,
                   tuples, lostV, lostA>>
    /\ UNCHANGED <<m_buffer_mutex, gn_pc, gn_expired, gn_notified, have_frames,
                   stop_pc, reset_pc, stop_seen, partial, stats_seen>>

\* ... m_base_time = get_monotonic_pts()
start_base ==
    /\ start_pc = "base"
    /\ \E t \in ClockReadings : m_base_time' = t
    /\ start_pc' = "idle"
    /\ UNCHANGED <<m_video_buffer, m_audio_buffer, m_video_drift_samples,
                   m_audio_drift_samples, m_running, m_last_video_pts,
                   m_last_audio_pts, m_config, m_stats, ret, pushedV, pushedA,
                   tuples, lostV, lostA>>
    /\ UNCHANGED <<m_buffer_mutex, gn_pc, gn_expired, gn_notified, have_frames,
                   stop_pc, reset_pc, stop_seen, partial, stats_seen>>

\* push_video / push_audio of another thread: the whole call runs with the
\* mutex held and ends with notify_one
locked_push_video ==
    /\ m_buffer_mutex = "none"
    /\ Len(pushedV) < MaxThreadPush
    /\ \E p \in ThreadVideoPts, t \in ClockReadings :
          push_video_calls(<<VFrame(Len(pushedV) + 1, p, TRUE)>>, t)
    /\ gn_notified' = Notify
    /\ partial' = (partial \/ ResetHalfDone)
    /\ UNCHANGED <<m_buffer_mutex, gn_pc, gn_expired, have_frames, stop_pc,
                   start_pc, reset_pc, stop_seen, stats_seen>>

locked_push_audio ==
    /\ m_buffer_mutex = "none"
    /\ Len(pushedA) < MaxThreadPush
    /\ \E p \in ThreadAudioPts, t \in ClockReadings :
          push_audio_calls(<<AFrame(Len(pushedA) + 1, p)>>, t)
    /\ gn_notified' = Notify
    /\ partial' = (partial \/ ResetHalfDone)
    /\ UNCHANGED <<m_buffer_mutex, gn_pc, gn_expired, have_frames, stop_pc,
                   start_pc, reset_pc, stop_seen, stats_seen>>

\* a whole get_next call that does not have to wait
locked_get_next ==
    /\ m_buffer_mutex = "none"
    /\ get_next
    /\ partial' = (partial \/ ResetHalfDone)
    /\ UNCHANGED <<m_buffer_mutex, gn_pc, gn_expired, gn_notified, have_frames,
                   stop_pc, start_pc, reset_pc, stop_seen, stats_seen>>

\* get_stats(): a copy of m_stats taken under m_stats_mutex
get_stats ==
    /\ stats_seen' = m_stats
    /\ UNCHANGED <<syncVars, m_buffer_mutex, gn_pc, gn_expired, gn_notified,
                   have_frames, stop_pc, start_pc, reset_pc, stop_seen, partial>>

\* reset(): std::lock_guard lock(m_buffer_mutex)
reset_lock_missing ==
    /\ reset_pc = "idle"
    /\ reset_pc' = "buffers"
    /\ UNCHANGED <<syncVars, m_buffer_mutex, gn_pc, gn_expired, gn_notified,
                   have_frames, stop_pc, start_pc, stop_seen, partial, stats_seen>>
reset_lock ==
    /\ reset_pc = "idle"
    /\ m_buffer_mutex = "none"
    /\ m_buffer_mutex' = "reset"
    /\ reset_pc' = "buffers"
    /\ UNCHANGED <<syncVars, gn_pc, gn_expired, gn_notified, have_frames,
                   stop_pc, start_pc, stop_seen, partial, stats_seen>>

\* reset(): the four clear() calls
reset_buffers ==
    /\ reset_pc = "buffers"
    /\ m_video_buffer' = <<>>
    /\ m_audio_buffer' = <<>>
    /\ m_video_drift_samples' = <<>>
    /\ m_audio_drift_samples' = <<>>
    /\ reset_pc' = "times"
    /\ UNCHANGED <<m_running, m_base_time, m_last_video_pts, m_last_audio_pts,
                   m_config, m_stats, ret, pushedV, pushedA, tuples, lostV, lostA>>
    /\ UNCHANGED <<m_buffer_mutex, gn_pc, gn_expired, gn_notified, have_frames,
                   stop_pc, start_pc, stop_seen, partial, stats_seen>>

\* reset(): m_base_time, m_last_video_pts and m_last_audio_pts
reset_times ==
    /\ reset_pc = "times"
    /\ m_base_time' = 0
    /\ m_last_video_pts' = 0
    /\ m_last_audio_pts' = 0
    /\ reset_pc' = "stats"
    /\ UNCHANGED <<m_video_buffer, m_audio_buffer, m_video_drift_samples,
                   m_audio_drift_samples, m_running, m_config, m_stats, ret,
                   pushedV, pushedA, tuples, lostV, lostA>>
    /\ UNCHANGED <<m_buffer_mutex, gn_pc, gn_expired, gn_notified, have_frames,
                   stop_pc, start_pc, stop_seen, partial, stats_seen>>

\* reset(): m_stats = SyncStats{} under m_stats_mutex, then both mutexes
\* are released; the histories kept for the properties start afresh
reset_stats ==
    /\ reset_pc = "stats"
    /\ m_stats' = SyncStats
    /\ pushedV' = <<>>
    /\ pushedA' = <<>>
    /\ tuples' = <<>>
    /\ lostV' = {}
    /\ lostA' = {}
    /\ ret' = None
    /\ reset_pc' = "idle"
    /\ m_buffer_mutex' = IF m_buffer_mutex = "reset" THEN "none" ELSE m_buffer_mutex
    /\ UNCHANGED <<m_video_buffer, m_audio_buffer, m_video_drift_samples,
                   m_audio_drift_samples, m_running, m_base_time, m_last_video_pts,
                   m_last_audio_pts, m_config>>
    /\ UNCHANGED <<gn_pc, gn_expired, gn_notified, have_frames, stop_pc,
                   start_pc, stop_seen, partial, stats_seen>>

\* a consumer waiting in get_next while other threads push, stop and start
WaitNext ==
    \/ gn_call
    \/ gn_lock
    \/ gn_test
    \/ gn_block
    \/ gn_wake
    \/ gn_decide
    \/ gn_expire
    \/ stop_store
    \/ stop_notify
    \/ start_run
    \/ start_base
    \/ locked_push_video

\* reset running against the other operations
ResetNext ==
    \/ reset_lock
    \/ reset_buffers
    \/ reset_times
    \/ reset_stats
    \/ locked_push_video
    \/ locked_push_audio
    \/ locked_get_next
    \/ get_stats
    \/ start_run
    \/ start_base

\* ======================================================================
\*  Sender: stream_linux::FFmpegVideoEncoder (encoding/video_encoder.cpp).
\*  libavcodec is outside the repository: the codec is a queue of the frames
\*  sent to it and not yet returned as packets; avcodec_send_frame fails or
\*  queues the frame, avcodec_receive_packet fails, asks for more input
\*  (EAGAIN) or returns the packet of the oldest queued frame, which has the
\*  pts given to avcodec_send_frame and is a key packet when the frame was
\*  sent as AV_PICTURE_TYPE_I or when the codec decides so.
\* ======================================================================
MaxEncodes == 3
MaxKeyRequests == 2

\* PTS of the captured frames handed to encode(), in capture order
EncPtsSet == {100000, 133333}
\* what the calls made by encode() can do
EncodeOutcomes == {"not_writable", "convert_failed", "send_failed", "eagain",
                   "receive_failed", "packet"}

VARIABLES
    m_initialized, m_keyframe_requested, m_pts_counter, enc_stats,
    codec_queue,        \* frames held by the AVCodecContext
    enc_ret,            \* what the last encode() or flush() returned
    enc_outputs,        \* every EncodedVideoFrame returned so far
    enc_calls,          \* number of encode() calls
    enc_last_in,        \* PTS of the last frame handed to encode()
    kf_requests,        \* number of request_keyframe() calls
    kf_pending,         \* request_keyframe() was called and no frame was output since
    m_codec_ctx,        \* "null", "allocated" (not opened) or "open"
    m_bitrate           \* m_config.bitrate

encVars == <<m_initialized, m_keyframe_requested, m_pts_counter, enc_stats, codec_queue,
             enc_ret, enc_outputs, enc_calls, enc_last_in, kf_requests, kf_pending,
             m_codec_ctx, m_bitrate>>

\* bitrates given to set_bitrate
BitrateSet == {8000000}
\* what a call through the null m_codec_ctx can do: the process dies, or
\* the access goes unnoticed and the call carries on
NullAccess == {"SIGSEGV", "unnoticed"}

EncoderStats == [frames_encoded |-> 0, keyframes |-> 0]

EncInit ==
    /\ m_initialized = FALSE
    /\ m_keyframe_requested = FALSE
    /\ m_pts_counter = 0
    /\ enc_stats = EncoderStats
    /\ codec_queue = <<>>
    /\ enc_ret = [ok |-> FALSE, error |-> "none", frames |-> <<>>]
    /\ enc_outputs = <<>>
    /\ enc_calls = 0
    /\ enc_last_in = 0
    /\ kf_requests = 0
    /\ kf_pending = FALSE
    /\ m_codec_ctx = "null"
    /\ m_bitrate = 5000000

\* the process has not died
EncAlive == enc_ret.error # "SIGSEGV"

\* FFmpegVideoEncoder::initialize, failing or succeeding
enc_initialize ==
    /\ EncAlive
    /\ ~m_initialized
    /\ \E outcome \in {"no_encoder", "not_opened", "opened"} :
          /\ m_initialized' = (outcome = "opened")
          /\ m_codec_ctx' = IF outcome = "no_encoder" THEN m_codec_ctx
                            ELSE IF outcome = "not_opened" THEN "allocated"
                            ELSE "open"
    /\ UNCHANGED <<m_keyframe_requested, m_pts_counter, enc_stats, codec_queue, enc_ret,
                   enc_outputs, enc_calls, enc_last_in, kf_requests, kf_pending, m_bitrate>>

\* the packet avcodec_receive_packet returns for the queued frame q
Packet(q, codecKey) == [pts |-> q.pts, key |-> (q.pict_type = "I" \/ codecKey)]

\* an EncodedVideoFrame with the facts about the frame it encodes:
\* src_pts is the PTS of the captured frame the packet was made from,
\* requested tells whether a keyframe request was pending when it was returned
Output(pts, pkt, q, by) ==
    [pts |-> pts, keyframe |-> pkt.key, src_pts |-> q.src_pts,
     requested |-> kf_pending, by |-> by]

EncodeError(e) == [ok |-> FALSE, error |-> e, frames |-> <<>>]

\* FFmpegVideoEncoder::encode(frame)
encode ==
    /\ EncAlive
    /\ enc_calls < MaxEncodes
    /\ enc_calls' = enc_calls + 1
    /\ \E framePts \in EncPtsSet, outcome \in EncodeOutcomes, codecKey \in BOOLEAN :
        /\ framePts >= enc_last_in
        /\ enc_last_in' = framePts
        /\ IF ~m_initialized
           THEN /\ enc_ret' = EncodeError("NotInitialized")
                /\ UNCHANGED <<m_keyframe_requested, m_pts_counter, enc_stats, codec_queue,
                               enc_outputs, kf_pending>>
           ELSE IF outcome \in {"not_writable", "convert_failed"}
           THEN /\ enc_ret' = EncodeError(outcome)
                /\ UNCHANGED <<m_keyframe_requested, m_pts_counter, enc_stats, codec_queue,
                               enc_outputs, kf_pending>>
           ELSE LET m_frame == [pts |-> m_pts_counter, src_pts |-> framePts,
                             pict_type |-> IF m_keyframe_requested THEN "I" ELSE "NONE"]
                    queued == Append(codec_queue, m_frame)
                IN /\ m_pts_counter' = m_pts_counter + 1
                   /\ m_keyframe_requested' = FALSE
                   /\ IF outcome = "send_failed"
                      THEN /\ enc_ret' = EncodeError(outcome)
                           /\ UNCHANGED <<enc_stats, codec_queue, enc_outputs, kf_pending>>
                      ELSE IF outcome \in {"eagain", "receive_failed"}
                      THEN /\ codec_queue' = queued
                           /\ enc_ret' = EncodeError(outcome)
                           /\ UNCHANGED <<enc_stats, enc_outputs, kf_pending>>
                      ELSE LET pkt == Packet(Head(queued), codecKey)
                               output == Output(framePts, pkt, Head(queued), "encode")
                           IN /\ codec_queue' = Tail(queued)
                              /\ enc_stats' = [frames_encoded |-> enc_stats.frames_encoded + 1,
                                               keyframes |-> enc_stats.keyframes
                                                   + (IF output.keyframe THEN 1 ELSE 0)]
                              /\ enc_ret' = [ok |-> TRUE, error |-> "none", frames |-> <<output>>]
                              /\ enc_outputs' = Append(enc_outputs, output)
                              /\ kf_pending' = FALSE
    /\ UNCHANGED <<m_initialized, kf_requests, m_codec_ctx, m_bitrate>>

\* the frames flush() builds from the first n queued frames; first tells
\* whether the next frame is the first one of this flush()
RECURSIVE FlushFrames(_, _, _, _)
FlushFrames(queue, n, codecKey, first) ==
    IF n = 0 THEN <<>>
    ELSE LET pkt == Packet(Head(queue), codecKey)
             frame == Output(pkt.pts, pkt, Head(queue), "flush")
         IN <<[frame EXCEPT !.requested = (first /\ kf_pending)]>>
            \o FlushFrames(Tail(queue), n - 1, codecKey, FALSE)

\* FFmpegVideoEncoder::flush(): the loop takes packets until
\* avcodec_receive_packet reports the end or an error.  There is no test of
\* m_initialized: with a context that was never opened both codec calls
\* fail and flush returns no frames, with the null context they are calls
\* through a null pointer.
flush ==
    /\ EncAlive
    /\ IF m_initialized
       THEN /\ codec_queue # <<>>
            /\ \E n \in 0..Len(codec_queue), codecKey \in BOOLEAN :
                LET frames == FlushFrames(codec_queue, n, codecKey, TRUE)
                IN /\ codec_queue' = SubSeq(codec_queue, n + 1, Len(codec_queue))
                   /\ enc_ret' = [ok |-> TRUE, error |-> "none", frames |-> frames]
                   /\ enc_outputs' = enc_outputs \o frames
                   /\ kf_pending' = (kf_pending /\ n = 0)
       ELSE /\ \E access \in NullAccess :
                  enc_ret' = IF m_codec_ctx = "null" /\ access = "SIGSEGV"
                             THEN EncodeError("SIGSEGV")
                             ELSE [ok |-> TRUE, error |-> "none", frames |-> <<>>]
            /\ UNCHANGED <<codec_queue, enc_outputs, kf_pending>>
    /\ UNCHANGED <<m_initialized, m_keyframe_requested, m_pts_counter, enc_stats,
                   enc_calls, enc_last_in, kf_requests, m_codec_ctx, m_bitrate>>

\* FFmpegVideoEncoder::set_bitrate(bitrate): no test of m_initialized either;
\* m_codec_ctx->bit_rate is a store through the pointer
set_bitrate ==
    /\ EncAlive
    /\ \E bitrate \in BitrateSet, access \in NullAccess :
          /\ m_bitrate' = bitrate
          /\ enc_ret' = IF m_codec_ctx = "null" /\ access = "SIGSEGV"
                        THEN EncodeError("SIGSEGV")
                        ELSE [ok |-> TRUE, error |-> "none", frames |-> <<>>]
    /\ UNCHANGED <<m_initialized, m_keyframe_requested, m_pts_counter, enc_stats,
                   codec_queue, enc_outputs, enc_calls, enc_last_in, kf_requests,
                   kf_pending, m_codec_ctx>>

\* FFmpegVideoEncoder::request_keyframe
request_keyframe ==
    /\ EncAlive
    /\ kf_requests < MaxKeyRequests
    /\ kf_requests' = kf_requests + 1
    /\ m_keyframe_requested' = TRUE
    /\ kf_pending' = TRUE
    /\ UNCHANGED <<m_initialized, m_pts_counter, enc_stats, codec_queue, enc_ret,
                   enc_outputs, enc_calls, enc_last_in, m_codec_ctx, m_bitrate>>

EncNext ==
    \/ enc_initialize
    \/ encode
    \/ flush
    \/ set_bitrate
    \/ request_keyframe

\* ======================================================================
\*  Sender: main and run_server (linux-host/src/main.cpp).  The capture
\*  back ends, the encoders and the synchronizer are taken by what their
\*  calls return to run_server; the transport is WebRTCTransportImpl
\*  (transport/webrtc_transport.cpp).
\* ======================================================================
MaxIterations == 2
MaxCtlMsgs == 2

\* what main does with the command line
MainOutcomes == {"parse_error", "help", "version", "list_monitors",
                 "list_audio_devices", "run_server"}
\* the first call of run_server that fails, if any; permission_denied is
\* display->initialize failing with ErrorCode::PermissionDenied
InitOutcomes == {"ok", "display_backend", "display_init", "permission_denied",
                 "video_encoder", "display_start"}
Signals == {"SIGINT", "SIGTERM"}
\* what synchronizer.get_next(10) returns
NoSynced == [valid |-> FALSE]
Synced(v, k, a) == [valid |-> TRUE, video_valid |-> v, keyframe |-> k, audio_valid |-> a]
SyncedSet == {NoSynced, Synced(TRUE, TRUE, TRUE), Synced(TRUE, FALSE, FALSE),
              Synced(FALSE, FALSE, TRUE)}

LoopStates == {"loop_test", "capture", "get_next", "send"}
CleanupStates == {"stop_sync", "stop_audio", "stop_display", "close", "return"}

VARIABLES
    srv_pc,             \* where main / run_server is
    g_running,
    signal_seen,        \* the first signal delivered, "none" before
    m_state,            \* WebRTCTransportImpl::m_state, "absent" before creation
    has_audio,          \* run_server's audio pointer is not null
    capturing,          \* which of synchronizer, audio and display are started
    synced,             \* the value get_next returned in this iteration
    iterations,
    delivered,          \* the tuples sent by send_synced, in order
    paused,             \* a pause message was processed and no resume since
    resume_pending,     \* a resume ended a pause and no video was delivered since
    ctl_msgs,           \* number of control messages processed
    exit                \* the value main returned and why

srvVars == <<srv_pc, g_running, signal_seen, m_state, has_audio, capturing, synced,
             iterations, delivered, paused, resume_pending, ctl_msgs, exit>>

NotStarted == [synchronizer |-> FALSE, audio |-> FALSE, display |-> FALSE]

SrvInit ==
    /\ srv_pc = "main"
    /\ g_running = TRUE
    /\ signal_seen = "none"
    /\ m_state = "absent"
    /\ has_audio = FALSE
    /\ capturing = NotStarted
    /\ synced = NoSynced
    /\ iterations = 0
    /\ delivered = <<>>
    /\ paused = FALSE
    /\ resume_pending = FALSE
    /\ ctl_msgs = 0
    /\ exit = [done |-> FALSE]

Exit(code, cause) == [done |-> TRUE, code |-> code, cause |-> cause]

\* signal_handler(signal), installed for SIGINT and SIGTERM
signal_handler ==
    /\ srv_pc # "exited"
    /\ \E signal \in Signals :
          signal_seen' = IF signal_seen = "none" THEN signal ELSE signal_seen
    /\ g_running' = FALSE
    /\ UNCHANGED <<srv_pc, m_state, has_audio, capturing, synced, iterations, delivered,
                   paused, resume_pending, ctl_msgs, exit>>

\* main up to the call of run_server
main ==
    /\ srv_pc = "main"
    /\ \E outcome \in MainOutcomes :
        IF outcome = "run_server"
        THEN srv_pc' = "run_server" /\ exit' = exit
        ELSE /\ srv_pc' = "exited"
             /\ exit' = IF outcome = "parse_error" THEN Exit(1, "invalid_argument")
                        ELSE Exit(0, "success")
    /\ UNCHANGED <<g_running, signal_seen, m_state, has_audio, capturing, synced,
                   iterations, delivered, paused, resume_pending, ctl_msgs>>

\* run_server up to the main loop
run_server_init ==
    /\ srv_pc = "run_server"
    /\ \E outcome \in InitOutcomes, audio \in BOOLEAN :
        IF outcome = "ok"
        THEN /\ srv_pc' = "loop_test"
             /\ m_state' = "New"
             /\ has_audio' = audio
             /\ capturing' = [synchronizer |-> TRUE, audio |-> audio, display |-> TRUE]
             /\ exit' = exit
        ELSE /\ srv_pc' = "exited"
             /\ m_state' = IF outcome = "display_start" THEN "Closed" ELSE m_state
             /\ exit' = Exit(1, IF outcome = "permission_denied" THEN "permission_denied"
                                ELSE "init_failure")
             /\ UNCHANGED <<has_audio, capturing>>
    /\ UNCHANGED <<g_running, signal_seen, synced, iterations, delivered, paused,
                   resume_pending, ctl_msgs>>

\* while (g_running)
loop_test ==
    /\ srv_pc = "loop_test"
    /\ g_running => iterations < MaxIterations
    /\ srv_pc' = IF g_running THEN "capture" ELSE "stop_sync"
    /\ iterations' = IF g_running THEN iterations + 1 ELSE iterations
    /\ UNCHANGED <<g_running, signal_seen, m_state, has_audio, capturing, synced,
                   delivered, paused, resume_pending, ctl_msgs, exit>>

\* capture_frame, encode, push_video, read_frame, encode, push_audio
capture_and_push ==
    /\ srv_pc = "capture"
    /\ srv_pc' = "get_next"
    /\ UNCHANGED <<g_running, signal_seen, m_state, has_audio, capturing, synced,
                   iterations, delivered, paused, resume_pending, ctl_msgs, exit>>

\* auto synced = synchronizer.get_next(10)
srv_get_next ==
    /\ srv_pc = "get_next"
    /\ \E s \in SyncedSet : synced' = s
    /\ srv_pc' = "send"
    /\ UNCHANGED <<g_running, signal_seen, m_state, has_audio, capturing, iterations,
                   delivered, paused, resume_pending, ctl_msgs, exit>>

\* a tuple given to the transport, with the facts about the moment it was sent
Delivery(s) ==
    [video_valid |-> s.video_valid, keyframe |-> s.keyframe, audio_valid |-> s.audio_valid,
     paused |-> paused, after_resume |-> (resume_pending /\ s.video_valid),
     after_signal |-> ~g_running]

\* if (synced && state == Connected) transport->send_synced(*synced)
srv_send ==
    /\ srv_pc = "send"
    /\ srv_pc' = "loop_test"
    /\ IF synced.valid /\ m_state = "Connected"
       THEN /\ delivered' = Append(delivered, Delivery(synced))
            /\ resume_pending' = (resume_pending /\ ~synced.video_valid)
       ELSE UNCHANGED <<delivered, resume_pending>>
    /\ UNCHANGED <<g_running, signal_seen, m_state, has_audio, capturing, synced,
                   iterations, paused, ctl_msgs, exit>>

\* synchronizer.stop()
srv_stop_sync ==
    /\ srv_pc = "stop_sync"
    /\ srv_pc' = "stop_audio"
    /\ capturing' = [capturing EXCEPT !.synchronizer = FALSE]
    /\ UNCHANGED <<g_running, signal_seen, m_state, has_audio, synced, iterations,
                   delivered, paused, resume_pending, ctl_msgs, exit>>

\* if (audio) audio->stop()
srv_stop_audio ==
    /\ srv_pc = "stop_audio"
    /\ srv_pc' = "stop_display"
    /\ capturing' = IF has_audio THEN [capturing EXCEPT !.audio = FALSE] ELSE capturing
    /\ UNCHANGED <<g_running, signal_seen, m_state, has_audio, synced, iterations,
                   delivered, paused, resume_pending, ctl_msgs, exit>>

\* display->stop()
srv_stop_display ==
    /\ srv_pc = "stop_display"
    /\ srv_pc' = "close"
    /\ capturing' = [capturing EXCEPT !.display = FALSE]
    /\ UNCHANGED <<g_running, signal_seen, m_state, has_audio, synced, iterations,
                   delivered, paused, resume_pending, ctl_msgs, exit>>

\* transport->close()
srv_close ==
    /\ srv_pc = "close"
    /\ srv_pc' = "return"
    /\ m_state' = "Closed"
    /\ UNCHANGED <<g_running, signal_seen, has_audio, capturing, synced, iterations,
                   delivered, paused, resume_pending, ctl_msgs, exit>>

\* return 0 at the end of run_server, returned by main
srv_return ==
    /\ srv_pc = "return"
    /\ srv_pc' = "exited"
    /\ exit' = Exit(0, signal_seen)
    /\ UNCHANGED <<g_running, signal_seen, m_state, has_audio, capturing, synced,
                   iterations, delivered, paused, resume_pending, ctl_msgs>>

\* the connection to the peer is established while the server runs
\* (WebRTCTransportImpl::simulate_connect)
simulate_connect ==
    /\ srv_pc \in LoopStates
    /\ m_state = "New"
    /\ m_state' = "Connected"
    /\ UNCHANGED <<srv_pc, g_running, signal_seen, has_audio, capturing, synced,
                   iterations, delivered, paused, resume_pending, ctl_msgs, exit>>

\* ControlChannel::process_message(Pause or Resume) on run_server's control
\* channel while the server runs: run_server installs no handler and keeps no
\* pause state, so the message changes nothing in the server
srv_process_message ==
    /\ srv_pc \in LoopStates
    /\ ctl_msgs < MaxCtlMsgs
    /\ ctl_msgs' = ctl_msgs + 1
    /\ \E type \in {"Pause", "Resume"} :
        /\ paused' = (type = "Pause")
        /\ resume_pending' = IF type = "Resume" THEN (paused \/ resume_pending) ELSE FALSE
    /\ UNCHANGED <<srv_pc, g_running, signal_seen, m_state, has_audio, capturing, synced,
                   iterations, delivered, exit>>

SrvNext ==
    \/ signal_handler
    \/ main
    \/ run_server_init
    \/ loop_test
    \/ capture_and_push
    \/ srv_get_next
    \/ srv_send
    \/ srv_stop_sync
    \/ srv_stop_audio
    \/ srv_stop_display
    \/ srv_close
    \/ srv_return
    \/ simulate_connect
    \/ srv_process_message

\* ======================================================================
\*  Sender: stream_linux::ConfigManager (linux-host/src/cli/config_manager.cpp)
\* ======================================================================
\* CLIOptions{}; config_file and the action flags are not part of the file
CLIOptions ==
    [backend |-> "Auto", monitor_id |-> 0 - 1, show_cursor |-> TRUE,
     codec |-> "H264", bitrate |-> 0, fps |-> 60, quality |-> "Auto",
     hw_encoder |-> "None", audio_source |-> "System", audio_enabled |-> TRUE,
     bind_address |-> "0.0.0.0", port |-> 0, stun_server |-> "", verbose |-> FALSE]

\* options with every field at its default or inside its permitted range
ValidOptions ==
    {[CLIOptions EXCEPT !.backend = b, !.monitor_id = m, !.bitrate = br, !.port = p,
                        !.hw_encoder = hw, !.codec = c, !.verbose = v] :
        b \in {"Auto", "Wayland"}, m \in {0 - 1, 1}, br \in {0, 5000000},
        p \in {0, 8080}, hw \in {"None", "VAAPI"}, c \in {"H264", "VP9"},
        v \in BOOLEAN}

\* the value of a line "key = value": a quoted string, a bare word or a
\* decimal number
TomlString(s) == [quoted |-> TRUE, is_number |-> FALSE, text |-> s, number |-> 0]
TomlBare(s) == [quoted |-> FALSE, is_number |-> FALSE, text |-> s, number |-> 0]
TomlNumber(n) == [quoted |-> FALSE, is_number |-> TRUE, text |-> "", number |-> n]
TomlAbsent == [quoted |-> FALSE, is_number |-> FALSE, text |-> "", number |-> 0]
TomlBool(b) == TomlBare(IF b THEN "true" ELSE "false")

backend_to_string(backend) ==
    IF backend = "Auto" THEN "auto" ELSE IF backend = "X11" THEN "x11"
    ELSE IF backend = "Wayland" THEN "wayland" ELSE "unknown"

codec_to_string(codec) ==
    IF codec = "H264" THEN "h264" ELSE IF codec = "H265" THEN "h265"
    ELSE IF codec = "VP9" THEN "vp9" ELSE "av1"

quality_to_string(quality) ==
    IF quality = "Auto" THEN "auto" ELSE IF quality = "Low" THEN "low"
    ELSE IF quality = "Medium" THEN "medium" ELSE IF quality = "High" THEN "high"
    ELSE "ultra"

source_to_string(source) ==
    IF source = "System" THEN "system" ELSE IF source = "Microphone" THEN "microphone"
    ELSE "mixed"

\* ConfigManager::to_toml(options): the lines written, by section and key
to_toml(options) ==
    [display_backend |-> TomlString(backend_to_string(options.backend)),
     display_monitor |-> TomlNumber(options.monitor_id),
     display_show_cursor |-> TomlBool(options.show_cursor),
     video_codec |-> TomlString(codec_to_string(options.codec)),
     video_bitrate |-> IF options.bitrate = 0 THEN TomlString("auto")
                       ELSE TomlNumber(options.bitrate),
     video_fps |-> TomlNumber(options.fps),
     video_quality |-> TomlString(quality_to_string(options.quality)),
     audio_enabled |-> TomlBool(options.audio_enabled),
     audio_source |-> TomlString(source_to_string(options.audio_source)),
     network_bind_address |-> TomlString(options.bind_address),
     network_port |-> TomlNumber(options.port),
     network_stun_server |-> IF options.stun_server = "" THEN TomlAbsent
                             ELSE TomlString(options.stun_server),
     logging_verbose |-> TomlBool(options.verbose)]

\* std::stoi / std::stoul of a value succeed on a number
ParsesAsNumber(value) == value.is_number
\* a numeric key of the file is accepted when its value is a number in range
NumberAccepted(value, min_val, max_val) ==
    /\ ParsesAsNumber(value)
    /\ value.number >= min_val /\ value.number <= max_val

\* ConfigManager::parse_toml(content)
parse_toml(content) ==
    LET present(v) == v # TomlAbsent
        monitor_ok == present(content.display_monitor)
                          => NumberAccepted(content.display_monitor, 0 - 1, 255)
        bitrate_ok == (present(content.video_bitrate) /\ content.video_bitrate.text # "auto")
                          => NumberAccepted(content.video_bitrate, 100000, 100000000)
        fps_ok == present(content.video_fps) => NumberAccepted(content.video_fps, 1, 240)
        port_ok == present(content.network_port)
                          => NumberAccepted(content.network_port, 1024, 65535)
        b == content.display_backend.text
        c == content.video_codec.text
        q == content.video_quality.text
        a == content.audio_source.text
        options ==
            [backend |-> IF b = "x11" THEN "X11" ELSE IF b = "wayland" THEN "Wayland"
                         ELSE CLIOptions.backend,
             monitor_id |-> IF present(content.display_monitor)
                            THEN content.display_monitor.number ELSE CLIOptions.monitor_id,
             show_cursor |-> IF present(content.display_show_cursor)
                             THEN content.display_show_cursor.text = "true"
                             ELSE CLIOptions.show_cursor,
             codec |-> IF c = "h265" THEN "H265" ELSE IF c = "vp9" THEN "VP9"
                       ELSE IF c = "av1" THEN "AV1" ELSE CLIOptions.codec,
             bitrate |-> IF present(content.video_bitrate) /\ content.video_bitrate.text # "auto"
                         THEN content.video_bitrate.number ELSE CLIOptions.bitrate,
             fps |-> IF present(content.video_fps) THEN content.video_fps.number
                     ELSE CLIOptions.fps,
             quality |-> IF q = "low" THEN "Low" ELSE IF q = "medium" THEN "Medium"
                         ELSE IF q = "high" THEN "High" ELSE IF q = "ultra" THEN "Ultra"
                         ELSE CLIOptions.quality,
             hw_encoder |-> CLIOptions.hw_encoder,
             audio_source |-> IF a = "microphone" THEN "Microphone"
                              ELSE IF a = "mixed" THEN "Mixed" ELSE CLIOptions.audio_source,
             audio_enabled |-> IF present(content.audio_enabled)
                               THEN content.audio_enabled.text = "true"
                               ELSE CLIOptions.audio_enabled,
             bind_address |-> IF present(content.network_bind_address)
                              THEN content.network_bind_address.text
                              ELSE CLIOptions.bind_address,
             port |-> IF present(content.network_port) THEN content.network_port.number
                      ELSE CLIOptions.port,
             stun_server |-> IF present(content.network_stun_server)
                             THEN content.network_stun_server.text
                             ELSE CLIOptions.stun_server,
             verbose |-> IF present(content.logging_verbose)
                         THEN content.logging_verbose.text = "true"
                         ELSE CLIOptions.verbose]
    IN IF ~monitor_ok THEN [ok |-> FALSE, error |-> "monitor"]
       ELSE IF ~bitrate_ok THEN [ok |-> FALSE, error |-> "bitrate"]
       ELSE IF ~fps_ok THEN [ok |-> FALSE, error |-> "fps"]
       ELSE IF ~port_ok THEN [ok |-> FALSE, error |-> "port"]
       ELSE [ok |-> TRUE, options |-> options]

\* ---- the configuration file's path ----------------------------------
\* A path is its components and whether it starts at the root; the file
\* system the process sees is a fixed small tree with one symbolic link.
Path(absolute, parts) == [absolute |-> absolute, parts |-> parts]
NoPath == [absolute |-> FALSE, parts |-> <<>>]

Home == <<"home", "user">>
WorkingDirectory == <<"home", "user", "work">>

Directories ==
    {<<>>, <<"home">>, Home, WorkingDirectory,
     Home \o <<".config">>, Home \o <<".config", "app">>,
     Home \o <<".local">>, Home \o <<".local", "share">>, Home \o <<".local", "bin">>,
     <<"etc">>, <<"etc", "stream-linux">>,
     <<"tmp">>, <<"tmp", "stream-linux">>, <<"tmp", "other">>}

RegularFiles ==
    {Home \o <<".config", "app", "config.toml">>,
     Home \o <<".local", "share", "config.toml">>,
     Home \o <<".local", "bin", "tool.toml">>,
     <<"etc", "passwd">>,
     <<"etc", "stream-linux", "config.toml">>,
     <<"tmp", "other", "foo">>}

\* /tmp/stream-linux/link.toml -> /etc/passwd
SymbolicLink == <<"tmp", "stream-linux", "link.toml">>
LinkTarget == <<"etc", "passwd">>

\* the paths given to load
PathSet ==
    {NoPath,
     Path(TRUE, <<"home", "user", "..", "..", "etc", "passwd">>),
     Path(FALSE, <<"~", ".config", "app", "config.toml">>),
     Path(TRUE, <<"tmp", "other", "foo">>),
     Path(TRUE, Home \o <<".config", "app", "config.toml">>),
     Path(TRUE, Home \o <<".config", "app", "missing.toml">>),
     Path(TRUE, Home \o <<".local", "share", "config.toml">>),
     Path(TRUE, Home \o <<".local", "bin", "tool.toml">>),
     Path(TRUE, <<"etc", "stream-linux", "config.toml">>),
     Path(TRUE, <<"etc", "passwd">>),
     Path(TRUE, SymbolicLink),
     Path(TRUE, <<"tmp", "stream-linux", "new", "config.toml">>),
     Path(FALSE, <<"config.toml">>)}

\* what the files hold
FileContents ==
    {to_toml(CLIOptions), to_toml([CLIOptions EXCEPT !.port = 8080])}

\* path.empty()
IsEmptyPath(path) == path.parts = <<>> /\ ~path.absolute
\* path.find("..") != npos
HasDotDot(path) == \E i \in 1..Len(path.parts) : path.parts[i] = ".."
\* the place in the tree a path without ".." names
Located(path) == IF path.absolute THEN path.parts ELSE WorkingDirectory \o path.parts
\* std::filesystem::exists(path)
exists(path) == Located(path) \in Directories \cup RegularFiles \cup {SymbolicLink}
\* std::filesystem::canonical(path) of an existing path
canonical(path) ==
    Path(TRUE, IF Located(path) = SymbolicLink THEN LinkTarget ELSE Located(path))
\* fs_path.parent_path(), fs_path.filename()
parent_path(path) ==
    IF path.parts = <<>> THEN path
    ELSE Path(path.absolute, SubSeq(path.parts, 1, Len(path.parts) - 1))
filename(path) == <<path.parts[Len(path.parts)]>>

\* canonical_str.rfind(prefix, 0) == 0 for prefix "/<directory>/"
HasPrefix(path, directory) ==
    /\ path.absolute
    /\ Len(path.parts) > Len(directory)
    /\ SubSeq(path.parts, 1, Len(directory)) = directory

allowed_prefixes(home) ==
    (IF home THEN {Home \o <<".config">>, Home \o <<".local">>} ELSE {})
        \cup {<<"etc", "stream-linux">>, <<"tmp", "stream-linux">>}

\* validate_config_path(path), home: whether HOME is set
validate_config_path(path, home) ==
    LET parent == parent_path(path)
        resolved ==
            IF exists(path) THEN canonical(path)
            ELSE IF ~IsEmptyPath(parent) /\ exists(parent)
                 THEN Path(TRUE, canonical(parent).parts \o filename(path))
                 ELSE path
    IN IF IsEmptyPath(path) THEN [ok |-> TRUE, path |-> path]
       ELSE IF HasDotDot(path) THEN [ok |-> FALSE, path |-> NoPath]
       ELSE IF \E prefix \in allowed_prefixes(home) : HasPrefix(resolved, prefix)
            THEN [ok |-> TRUE, path |-> resolved]
            ELSE [ok |-> FALSE, path |-> NoPath]

\* ConfigManager::get_default_path() without XDG_CONFIG_HOME
get_default_path(home) ==
    Path(TRUE, (IF home THEN Home \o <<".config">> ELSE <<"etc">>)
                   \o <<"stream-linux", "config.toml">>)

\* no options chosen and no text written yet
Unset == <<>>

VARIABLES
    cfg_pc,         \* "idle", "chosen", "serialized", "parsed"
    cfg_in,         \* the options given to to_toml
    cfg_text,       \* what to_toml returned
    cfg_out,        \* what parse_toml returned
    load_in,        \* the path given to the last load and whether HOME was set
    load_out        \* its outcome, the file it opened and what it returned

NoLoad == [done |-> FALSE, accepted |-> FALSE, opened |-> NoPath,
           result |-> [ok |-> FALSE, error |-> "none"]]

cfgVars == <<cfg_pc, cfg_in, cfg_text, cfg_out, load_in, load_out>>

CfgInit ==
    /\ cfg_pc = "idle"
    /\ cfg_in = Unset
    /\ cfg_text = Unset
    /\ cfg_out = [ok |-> FALSE, error |-> "none"]
    /\ load_in = [path |-> NoPath, home |-> TRUE]
    /\ load_out = NoLoad

cfg_choose ==
    /\ cfg_pc = "idle"
    /\ cfg_in' \in ValidOptions
    /\ cfg_pc' = "chosen"
    /\ UNCHANGED <<cfg_text, cfg_out, load_in, load_out>>

cfg_to_toml ==
    /\ cfg_pc = "chosen"
    /\ cfg_text' = to_toml(cfg_in)
    /\ cfg_pc' = "serialized"
    /\ UNCHANGED <<cfg_in, cfg_out, load_in, load_out>>

cfg_parse_toml ==
    /\ cfg_pc = "serialized"
    /\ cfg_out' = parse_toml(cfg_text)
    /\ cfg_pc' = "parsed"
    /\ UNCHANGED <<cfg_in, cfg_text, load_in, load_out>>

\* ConfigManager::load(path)
load ==
    \E path \in PathSet, home \in BOOLEAN, readable \in BOOLEAN, content \in FileContents :
        LET validated == validate_config_path(path, home)
            config_path == IF IsEmptyPath(path) THEN get_default_path(home)
                           ELSE validated.path
        IN /\ load_in' = [path |-> path, home |-> home]
           /\ load_out' =
                  IF ~validated.ok /\ ~IsEmptyPath(path)
                  THEN [done |-> TRUE, accepted |-> FALSE, opened |-> NoPath,
                        result |-> [ok |-> FALSE, error |-> "InvalidArgument"]]
                  ELSE IF ~exists(config_path)
                  THEN [done |-> TRUE, accepted |-> TRUE, opened |-> NoPath,
                        result |-> [ok |-> TRUE, options |-> CLIOptions]]
                  ELSE IF ~readable
                  THEN [done |-> TRUE, accepted |-> TRUE, opened |-> NoPath,
                        result |-> [ok |-> FALSE, error |-> "ConfigLoadFailed"]]
                  ELSE [done |-> TRUE, accepted |-> TRUE, opened |-> canonical(config_path),
                        result |-> parse_toml(content)]
           /\ UNCHANGED <<cfg_pc, cfg_in, cfg_text, cfg_out>>

ConfigNext ==
    \/ cfg_choose
    \/ cfg_to_toml
    \/ cfg_parse_toml
    \/ load

\* ======================================================================
\*  Sender: the two mutexes of stream_linux::AVSynchronizer.  Every public
\*  operation is the sequence of mutex steps its code makes; which of the
\*  guarded sections of a call run depends on the frames, so a call picks
\*  one of the sequences its code can run.
\* ======================================================================
\* threads calling into the synchronizer at the same time
MaxThreads == 2

Threads == 1..MaxThreads
NoThread == 0

\* std::lock_guard stats_lock(m_stats_mutex) in a block of its own
StatsSection == <<"lock_stats", "unlock_stats">>
\* wait_for with a false predicate: the mutex is released and taken again
WaitSection == <<"wait_release", "wait_reacquire">>

\* reset(): m_buffer_mutex, then m_stats_mutex, both held to the end
ResetProgramStatsFirst ==
    {<<"lock_stats", "lock_buffer", "unlock_stats", "unlock_buffer">>}
ResetProgram ==
    {<<"lock_buffer", "lock_stats", "unlock_stats", "unlock_buffer">>}

\* push_video(): m_buffer_mutex, m_stats_mutex once per evicted frame
PushVideoProgram ==
    {<<"lock_buffer">> \o evictions \o <<"notify", "unlock_buffer">> :
        evictions \in {<<>>, StatsSection}}

\* push_audio(): m_buffer_mutex only
PushAudioProgram == {<<"lock_buffer", "notify", "unlock_buffer">>}

GetNextProgramCallbackLocked ==
    {<<"lock_buffer">> \o waiting \o <<"unlock_buffer">> :
        waiting \in {<<>>, WaitSection}}
    \cup
    {<<"lock_buffer">> \o waiting \o selection \o drift \o ending :
        waiting \in {<<>>, WaitSection},
        selection \in {<<>>, StatsSection},
        drift \in {<<>>, StatsSection},
        ending \in {<<"callback", "unlock_buffer">>}}
\* get_next(): m_buffer_mutex, the wait, then the sections under
\* m_stats_mutex (the late drop or the offset statistic or neither, then
\* correct_drift or its early return); m_buffer_mutex is released and the
\* callback, when one is set, runs with no mutex held
GetNextProgram ==
    {<<"lock_buffer">> \o waiting \o <<"unlock_buffer">> :
        waiting \in {<<>>, WaitSection}}
    \cup
    {<<"lock_buffer">> \o waiting \o selection \o drift \o ending :
        waiting \in {<<>>, WaitSection},
        selection \in {<<>>, StatsSection},
        drift \in {<<>>, StatsSection},
        ending \in {<<"unlock_buffer", "callback">>}}

\* get_stats(): m_stats_mutex alone
GetStatsProgram == {StatsSection}

\* stop(): no mutex
StopProgram == {<<"notify">>}

Programs ==
    ResetProgram \cup PushVideoProgram \cup PushAudioProgram \cup GetNextProgram
        \cup GetStatsProgram \cup StopProgram

VARIABLES
    buffer_mutex_owner,     \* the thread holding m_buffer_mutex, or NoThread
    stats_mutex_owner,      \* the thread holding m_stats_mutex, or NoThread
    program,                \* the steps of the call each thread is in
    pc                      \* the step each thread makes next, 0: no call

lockVars == <<buffer_mutex_owner, stats_mutex_owner, program, pc>>

LockInit ==
    /\ buffer_mutex_owner = NoThread
    /\ stats_mutex_owner = NoThread
    /\ program = [t \in Threads |-> <<>>]
    /\ pc = [t \in Threads |-> 0]

\* the step thread t makes next
NextStep(t) == IF pc[t] = 0 THEN "none" ELSE program[t][pc[t]]

\* thread t calls one of the operations
lock_call(t) ==
    /\ pc[t] = 0
    /\ \E steps \in Programs : program' = [program EXCEPT ![t] = steps]
    /\ pc' = [pc EXCEPT ![t] = 1]
    /\ UNCHANGED <<buffer_mutex_owner, stats_mutex_owner>>

\* the step after the one thread t makes now; 0 after the last one
Advance(t) == [pc EXCEPT ![t] = IF pc[t] = Len(program[t]) THEN 0 ELSE pc[t] + 1]

\* std::mutex::lock on m_buffer_mutex, also at the end of a wait
lock_buffer(t) ==
    /\ NextStep(t) \in {"lock_buffer", "wait_reacquire"}
    /\ buffer_mutex_owner = NoThread
    /\ buffer_mutex_owner' = t
    /\ pc' = Advance(t)
    /\ UNCHANGED <<stats_mutex_owner, program>>

\* unlock of m_buffer_mutex, also at the start of a wait
unlock_buffer(t) ==
    /\ NextStep(t) \in {"unlock_buffer", "wait_release"}
    /\ buffer_mutex_owner' = NoThread
    /\ pc' = Advance(t)
    /\ UNCHANGED <<stats_mutex_owner, program>>

lock_stats(t) ==
    /\ NextStep(t) = "lock_stats"
    /\ stats_mutex_owner = NoThread
    /\ stats_mutex_owner' = t
    /\ pc' = Advance(t)
    /\ UNCHANGED <<buffer_mutex_owner, program>>

unlock_stats(t) ==
    /\ NextStep(t) = "unlock_stats"
    /\ stats_mutex_owner' = NoThread
    /\ pc' = Advance(t)
    /\ UNCHANGED <<buffer_mutex_owner, program>>

\* notify_one / notify_all and the output callback take no mutex
unlocked_step(t) ==
    /\ NextStep(t) \in {"notify", "callback"}
    /\ pc' = Advance(t)
    /\ UNCHANGED <<buffer_mutex_owner, stats_mutex_owner, program>>

LockNext ==
    \/ \E t \in Threads : lock_call(t)
    \/ \E t \in Threads : lock_buffer(t)
    \/ \E t \in Threads : unlock_buffer(t)
    \/ \E t \in Threads : lock_stats(t)
    \/ \E t \in Threads : unlock_stats(t)
    \/ \E t \in Threads : unlocked_step(t)

\* ------------------------------------------------------------------
\* Capture sources: the portal handshake of WaylandCapture and the pull
\* queue of PipeWireAudioCapture (PulseAudioCapture has the same
\* producer callback and the same read_frame).
\* ------------------------------------------------------------------

MaxCaptured == 12
MAX_QUEUE_SIZE == 10

PortalState == {"Idle", "RequestingSession", "SelectingSource", "Starting", "Active", "Failed"}

VARIABLES
    m_portal_state,
    wl_pc,              \* where the thread calling initialize() / start() is
    wl_ret,             \* what the last initialize() or start() returned
    wl_initialized,     \* WaylandCapture::m_initialized
    wl_running,         \* WaylandCapture::m_running
    frame_queue,        \* Impl::frame_queue, frames named by their capture number
    aud_running,        \* Impl::running
    aud_connected,      \* the pw_stream is connected and delivers buffers
    aud_callback,       \* Impl::callback is set
    captured,           \* number of frames the producer callback built
    rd_pc,              \* "idle" or "waiting": the thread calling read_frame()
    rd_ret              \* what the last read_frame() returned

capVars == <<m_portal_state, wl_pc, wl_ret, wl_initialized, wl_running, frame_queue,
             aud_running, aud_connected, aud_callback, captured, rd_pc, rd_ret>>

NoRead == [done |-> FALSE, error |-> "none", frame |-> 0]

CapInit ==
    /\ m_portal_state = "Idle"
    /\ wl_pc = "idle"
    /\ wl_ret = "none"
    /\ wl_initialized = FALSE
    /\ wl_running = FALSE
    /\ frame_queue = <<>>
    /\ aud_running = FALSE
    /\ aud_connected = FALSE
    /\ aud_callback = FALSE
    /\ captured = 0
    /\ rd_pc = "idle"
    /\ rd_ret = NoRead

audVars == <<frame_queue, aud_running, aud_connected, aud_callback, captured, rd_pc, rd_ret>>
wlVars == <<m_portal_state, wl_pc, wl_ret, wl_initialized, wl_running>>

\* the positions at which the calling thread sits in m_portal_cv.wait
PortalWaits == {"initialize_wait_session", "initialize_wait_source", "start_wait"}

\* WaylandCapture::initialize() up to its first wait: the D-Bus connection,
\* then create_session(), which sets RequestingSession before its call
wl_initialize ==
    /\ wl_pc = "idle"
    /\ \/ /\ wl_initialized
          /\ wl_ret' = "AlreadyInitialized"
          /\ UNCHANGED <<m_portal_state, wl_pc>>
       \/ /\ ~wl_initialized
          /\ \E bus \in BOOLEAN, called \in BOOLEAN :
                IF ~bus
                THEN /\ wl_ret' = "CaptureInitFailed"
                     /\ UNCHANGED <<m_portal_state, wl_pc>>
                ELSE /\ m_portal_state' = "RequestingSession"
                     /\ IF called
                        THEN wl_pc' = "initialize_wait_session" /\ wl_ret' = "none"
                        ELSE wl_pc' = "idle" /\ wl_ret' = "PortalRequestFailed"
    /\ UNCHANGED <<wl_initialized, wl_running, audVars>>

\* the portal answers the CreateSession request
on_create_session_response ==
    /\ wl_pc = "initialize_wait_session"
    /\ m_portal_state = "RequestingSession"
    /\ \E response \in {0, 1} :
          m_portal_state' = IF response # 0 THEN "Failed" ELSE "SelectingSource"
    /\ UNCHANGED <<wl_pc, wl_ret, wl_initialized, wl_running, audVars>>

\* m_portal_cv.wait(lock, state != RequestingSession) returns; then
\* select_sources()
wl_initialize_session ==
    /\ wl_pc = "initialize_wait_session"
    /\ m_portal_state # "RequestingSession"
    /\ IF m_portal_state = "Failed"
       THEN /\ wl_pc' = "idle"
            /\ wl_ret' = "PermissionDenied"
            /\ UNCHANGED m_portal_state
       ELSE /\ m_portal_state' = "SelectingSource"
            /\ \E called \in BOOLEAN :
                  IF called
                  THEN wl_pc' = "initialize_wait_source" /\ wl_ret' = "none"
                  ELSE wl_pc' = "idle" /\ wl_ret' = "PortalRequestFailed"
    /\ UNCHANGED <<wl_initialized, wl_running, audVars>>

\* the portal answers the SelectSources request
on_select_sources_response ==
    /\ wl_pc = "initialize_wait_source"
    /\ m_portal_state = "SelectingSource"
    /\ \E response \in {0, 1} :
          m_portal_state' = IF response # 0 THEN "Failed" ELSE "Starting"
    /\ UNCHANGED <<wl_pc, wl_ret, wl_initialized, wl_running, audVars>>

\* m_portal_cv.wait(lock, state != SelectingSource) returns
wl_initialize_source ==
    /\ wl_pc = "initialize_wait_source"
    /\ m_portal_state # "SelectingSource"
    /\ wl_pc' = "idle"
    /\ IF m_portal_state = "Failed"
       THEN wl_ret' = "PermissionDenied" /\ UNCHANGED wl_initialized
       ELSE wl_ret' = "ok" /\ wl_initialized' = TRUE
    /\ UNCHANGED <<m_portal_state, wl_running, audVars>>

\* WaylandCapture::start() up to its wait
wl_start ==
    /\ wl_pc = "idle"
    /\ IF ~wl_initialized
       THEN wl_ret' = "NotInitialized" /\ UNCHANGED wl_pc
       ELSE IF wl_running
       THEN wl_ret' = "AlreadyInitialized" /\ UNCHANGED wl_pc
       ELSE \E called \in BOOLEAN :
               IF called
               THEN wl_pc' = "start_wait" /\ wl_ret' = "none"
               ELSE wl_pc' = "idle" /\ wl_ret' = "PortalRequestFailed"
    /\ UNCHANGED <<m_portal_state, wl_initialized, wl_running, audVars>>

\* the portal answers the Start request
on_start_response ==
    /\ wl_pc = "start_wait"
    /\ m_portal_state \notin {"Active", "Failed"}
    /\ \E outcome \in {"Active", "Failed"} : m_portal_state' = outcome
    /\ UNCHANGED <<wl_pc, wl_ret, wl_initialized, wl_running, audVars>>

\* m_portal_cv.wait(lock, state == Active || state == Failed) returns
wl_start_resume ==
    /\ wl_pc = "start_wait"
    /\ m_portal_state \in {"Active", "Failed"}
    /\ wl_pc' = "idle"
    /\ IF m_portal_state = "Failed"
       THEN wl_ret' = "CaptureStartFailed" /\ UNCHANGED wl_running
       ELSE wl_ret' = "ok" /\ wl_running' = TRUE
    /\ UNCHANGED <<m_portal_state, wl_initialized, audVars>>

wl_stop ==
    /\ wl_running
    /\ wl_running' = FALSE
    /\ UNCHANGED <<m_portal_state, wl_pc, wl_ret, wl_initialized, audVars>>

\* PipeWireAudioCapture::start(), stop() and set_frame_callback()
aud_start ==
    /\ ~aud_running
    /\ \E connected \in BOOLEAN :
          /\ aud_running' = connected
          /\ aud_connected' = (aud_connected \/ connected)
    /\ UNCHANGED <<frame_queue, aud_callback, captured, rd_pc, rd_ret, wlVars>>

aud_stop ==
    /\ aud_running
    /\ aud_running' = FALSE
    /\ UNCHANGED <<frame_queue, aud_connected, aud_callback, captured, rd_pc, rd_ret, wlVars>>

set_frame_callback ==
    /\ ~aud_connected
    /\ \E given \in BOOLEAN : aud_callback' = given
    /\ UNCHANGED <<frame_queue, aud_running, aud_connected, captured, rd_pc, rd_ret, wlVars>>

\* Impl::on_process: the producer callback of the capture stream
on_process(buffer) ==
    IF buffer # "data"
    THEN UNCHANGED <<frame_queue, captured>>
    ELSE /\ captured' = captured + 1
         /\ IF aud_callback
            THEN UNCHANGED frame_queue
            ELSE frame_queue' =
                    Append(IF Len(frame_queue) >= MAX_QUEUE_SIZE
                           THEN Tail(frame_queue) ELSE frame_queue,
                           captured + 1)

on_process_call ==
    /\ aud_connected
    /\ captured < MaxCaptured
    /\ \E buffer \in {"none", "nodata", "data"} : on_process(buffer)
    /\ UNCHANGED <<aud_running, aud_connected, aud_callback, rd_pc, rd_ret, wlVars>>

\* read_frame(): the predicate of frame_cv.wait_for
FrameReady == frame_queue # <<>> \/ ~aud_running

read_frame_call ==
    /\ rd_pc = "idle"
    /\ rd_pc' = "waiting"
    /\ UNCHANGED <<frame_queue, aud_running, aud_connected, aud_callback, captured, rd_ret, wlVars>>

\* the wait ends with the predicate true
read_frame_return ==
    /\ rd_pc = "waiting"
    /\ FrameReady
    /\ rd_pc' = "idle"
    /\ IF ~aud_running /\ frame_queue = <<>>
       THEN /\ rd_ret' = [done |-> TRUE, error |-> "AudioReadFailed", frame |-> 0]
            /\ UNCHANGED frame_queue
       ELSE /\ rd_ret' = [done |-> TRUE, error |-> "none", frame |-> Head(frame_queue)]
            /\ frame_queue' = Tail(frame_queue)
    /\ UNCHANGED <<aud_running, aud_connected, aud_callback, captured, wlVars>>

\* the 100 ms of the wait pass with the predicate false
read_frame_timeout ==
    /\ rd_pc = "waiting"
    /\ ~FrameReady
    /\ rd_pc' = "idle"
    /\ rd_ret' = [done |-> TRUE, error |-> "Timeout", frame |-> 0]
    /\ UNCHANGED <<frame_queue, aud_running, aud_connected, aud_callback, captured, wlVars>>

CaptureNext ==
    \/ wl_initialize
    \/ on_create_session_response
    \/ wl_initialize_session
    \/ on_select_sources_response
    \/ wl_initialize_source
    \/ wl_start
    \/ on_start_response
    \/ wl_start_resume
    \/ wl_stop
    \/ aud_start
    \/ aud_stop
    \/ set_frame_callback
    \/ on_process_call
    \/ read_frame_call
    \/ read_frame_return
    \/ read_frame_timeout

\* ------------------------------------------------------------------
\* AdaptiveBuffer (android-client av_sync.cpp)
\* ------------------------------------------------------------------

MIN_BUFFER_MS == 20
MAX_BUFFER_MS == 200
TARGET_BUFFER_MS == 50

JitterInputs == {0, 4999, 5000, 20000, 20001}
LossInputs == {0, 1, 2}

VARIABLES
    m_bufferSize,
    ab_before,          \* m_bufferSize before the last update()
    ab_in               \* the arguments of the last update()

abVars == <<m_bufferSize, ab_before, ab_in>>

NoUpdate == [called |-> FALSE, jitter |-> 0, packetLoss |-> 0]

AbInit ==
    /\ m_bufferSize = TARGET_BUFFER_MS
    /\ ab_before = TARGET_BUFFER_MS
    /\ ab_in = NoUpdate

\* AdaptiveBuffer::update: the new m_bufferSize
update(size, jitter, packetLoss) ==
    IF jitter > 20000 \/ packetLoss > 1
    THEN (IF size + 10 < MAX_BUFFER_MS THEN size + 10 ELSE MAX_BUFFER_MS)
    ELSE IF jitter < 5000 /\ packetLoss = 0
    THEN (IF size - 5 > MIN_BUFFER_MS THEN size - 5 ELSE MIN_BUFFER_MS)
    ELSE size

ab_update ==
    \E jitter \in JitterInputs, packetLoss \in LossInputs :
          /\ ab_in' = [called |-> TRUE, jitter |-> jitter, packetLoss |-> packetLoss]
          /\ ab_before' = m_bufferSize
          /\ m_bufferSize' = update(m_bufferSize, jitter, packetLoss)

ab_reset ==
    /\ m_bufferSize' = TARGET_BUFFER_MS
    /\ ab_in' = NoUpdate
    /\ ab_before' = TARGET_BUFFER_MS

AdaptiveNext ==
    \/ ab_update
    \/ ab_reset


vars == <<syncVars, rxVars, decVars, ctlVars, threadVars, switchVars, encVars, srvVars, cfgVars, lockVars, capVars, abVars>>

Init == SyncInit /\ RxInit /\ DecInit /\ CtlInit /\ ThreadInit /\ SwitchInit /\ EncInit /\ SrvInit /\ CfgInit /\ LockInit /\ CapInit /\ AbInit

Spec == Init /\ [][SyncNext /\ UNCHANGED <<rxVars, decVars, ctlVars, threadVars, switchVars, encVars, srvVars, cfgVars, lockVars, capVars, abVars>>]_vars

SpecOrder == Init /\ [][OrderNext /\ UNCHANGED <<rxVars, decVars, ctlVars, threadVars, switchVars, encVars, srvVars, cfgVars, lockVars, capVars, abVars>>]_vars

SpecOffset == Init /\ [][OffsetNext /\ UNCHANGED <<rxVars, decVars, ctlVars, threadVars, switchVars, encVars, srvVars, cfgVars, lockVars, capVars, abVars>>]_vars

\* the sender loop keeps calling get_next
ProgressFairness ==
    WF_vars(get_next_polled /\ UNCHANGED <<rxVars, decVars, ctlVars, threadVars, switchVars, encVars, srvVars, cfgVars, lockVars, capVars, abVars>>)

SpecProgress ==
    /\ Init
    /\ [][ProgressNext /\ UNCHANGED <<rxVars, decVars, ctlVars, threadVars, switchVars, encVars, srvVars, cfgVars, lockVars, capVars, abVars>>]_vars
    /\ ProgressFairness

SpecVideoOverflow ==
    Init /\ [][VideoOverflowNext /\ UNCHANGED <<rxVars, decVars, ctlVars, threadVars, switchVars, encVars, srvVars, cfgVars, lockVars, capVars, abVars>>]_vars

SpecOverflow == Init /\ [][OverflowNext /\ UNCHANGED <<rxVars, decVars, ctlVars, threadVars, switchVars, encVars, srvVars, cfgVars, lockVars, capVars, abVars>>]_vars

SpecRecv == Init /\ [][RxNext /\ UNCHANGED <<syncVars, decVars, ctlVars, threadVars, switchVars, encVars, srvVars, cfgVars, lockVars, capVars, abVars>>]_vars

SpecDrift == Init /\ [][DriftNext /\ UNCHANGED <<syncVars, decVars, ctlVars, threadVars, switchVars, encVars, srvVars, cfgVars, lockVars, capVars, abVars>>]_vars

SpecSwitch ==
    Init /\ [][SwitchNext /\ UNCHANGED <<syncVars, decVars, ctlVars, threadVars, encVars, srvVars, cfgVars, lockVars, capVars, abVars>>]_vars

SpecClock == Init /\ [][ClockNext /\ UNCHANGED <<syncVars, decVars, ctlVars, threadVars, switchVars, encVars, srvVars, cfgVars, lockVars, capVars, abVars>>]_vars

SpecAdjust == Init /\ [][AdjustNext /\ UNCHANGED <<syncVars, decVars, ctlVars, threadVars, switchVars, encVars, srvVars, cfgVars, lockVars, capVars, abVars>>]_vars

SpecStream == Init /\ [][StreamNext /\ UNCHANGED <<syncVars, decVars, ctlVars, threadVars, switchVars, encVars, srvVars, cfgVars, lockVars, capVars, abVars>>]_vars

SpecDecode == Init /\ [][DecodeNext /\ UNCHANGED <<syncVars, ctlVars, threadVars, switchVars, encVars, srvVars, cfgVars, lockVars, capVars, abVars>>]_vars

\* the thread inside get_next keeps running and its timeout passes
WaitFairness ==
    /\ WF_vars(gn_lock /\ UNCHANGED <<rxVars, decVars, ctlVars, switchVars, encVars, srvVars, cfgVars, lockVars, capVars, abVars>>)
    /\ WF_vars(gn_test /\ UNCHANGED <<rxVars, decVars, ctlVars, switchVars, encVars, srvVars, cfgVars, lockVars, capVars, abVars>>)
    /\ WF_vars(gn_block /\ UNCHANGED <<rxVars, decVars, ctlVars, switchVars, encVars, srvVars, cfgVars, lockVars, capVars, abVars>>)
    /\ WF_vars(gn_wake /\ UNCHANGED <<rxVars, decVars, ctlVars, switchVars, encVars, srvVars, cfgVars, lockVars, capVars, abVars>>)
    /\ WF_vars(gn_decide /\ UNCHANGED <<rxVars, decVars, ctlVars, switchVars, encVars, srvVars, cfgVars, lockVars, capVars, abVars>>)
    /\ WF_vars(gn_expire /\ UNCHANGED <<rxVars, decVars, ctlVars, switchVars, encVars, srvVars, cfgVars, lockVars, capVars, abVars>>)

SpecWait ==
    /\ Init
    /\ [][WaitNext /\ UNCHANGED <<rxVars, decVars, ctlVars, switchVars, encVars, srvVars, cfgVars, lockVars, capVars, abVars>>]_vars
    /\ WaitFairness

SpecReset == Init /\ [][ResetNext /\ UNCHANGED <<rxVars, decVars, ctlVars, switchVars, encVars, srvVars, cfgVars, lockVars, capVars, abVars>>]_vars

SpecControl == Init /\ [][CtlNext /\ UNCHANGED <<syncVars, rxVars, decVars, threadVars, switchVars, encVars, srvVars, cfgVars, lockVars, capVars, abVars>>]_vars

SpecEncode ==
    Init /\ [][EncNext /\ UNCHANGED <<syncVars, rxVars, decVars, ctlVars, threadVars, switchVars, srvVars, cfgVars, lockVars, capVars, abVars>>]_vars

SpecServer ==
    Init /\ [][SrvNext /\ UNCHANGED <<syncVars, rxVars, decVars, ctlVars, threadVars, switchVars,
                                     encVars, cfgVars, lockVars, capVars, abVars>>]_vars

SpecConfig ==
    Init /\ [][ConfigNext /\ UNCHANGED <<syncVars, rxVars, decVars, ctlVars, threadVars, switchVars,
                                        encVars, srvVars, lockVars, capVars, abVars>>]_vars

SpecLocks ==
    Init /\ [][LockNext /\ UNCHANGED <<syncVars, rxVars, decVars, ctlVars, threadVars, switchVars,
                                      encVars, srvVars, cfgVars, capVars, abVars>>]_vars

CaptureFairness ==
    /\ WF_vars(wl_initialize_session /\ UNCHANGED <<syncVars, rxVars, decVars, ctlVars, threadVars,
                                                   switchVars, encVars, srvVars, cfgVars, lockVars,
                                                   abVars>>)
    /\ WF_vars(wl_initialize_source /\ UNCHANGED <<syncVars, rxVars, decVars, ctlVars, threadVars,
                                                  switchVars, encVars, srvVars, cfgVars, lockVars,
                                                  abVars>>)
    /\ WF_vars(wl_start_resume /\ UNCHANGED <<syncVars, rxVars, decVars, ctlVars, threadVars,
                                             switchVars, encVars, srvVars, cfgVars, lockVars,
                                             abVars>>)
    /\ WF_vars((read_frame_return \/ read_frame_timeout)
                  /\ UNCHANGED <<syncVars, rxVars, decVars, ctlVars, threadVars, switchVars,
                                 encVars, srvVars, cfgVars, lockVars, abVars>>)

\* the threads inside a wait are scheduled when their wait can end, and the
\* timer of a wait_for expires; the portal owes no answer
SpecCapture ==
    /\ Init
    /\ [][CaptureNext /\ UNCHANGED <<syncVars, rxVars, decVars, ctlVars, threadVars, switchVars,
                                     encVars, srvVars, cfgVars, lockVars, abVars>>]_vars
    /\ CaptureFairness

SpecAdaptive ==
    Init /\ [][AdaptiveNext /\ UNCHANGED <<syncVars, rxVars, decVars, ctlVars, threadVars, switchVars,
                                          encVars, srvVars, cfgVars, lockVars, capVars>>]_vars

\* ======================================================================
\*  Properties of the sender synchronizer
\* ======================================================================
HasVideo(t) == t.video_valid
HasAudio(t) == t.audio_valid
\* the tuples returned so far that carry a video (an audio) frame
EmittedVideo == SelectSeq(tuples, HasVideo)
EmittedAudio == SelectSeq(tuples, HasAudio)
EmittedVideoFrames == {EmittedVideo[i].video : i \in 1..Len(EmittedVideo)}
EmittedAudioFrames == {EmittedAudio[i].audio : i \in 1..Len(EmittedAudio)}

\* C1: every tuple returned by get_next with both halves valid has
\* |audio.pts - video.pts| < max_desync_us.
C1_DesyncBound ==
    (ret.valid /\ ret.video_valid /\ ret.audio_valid)
        => Abs(ret.audio.pts - ret.video.pts) < m_config.max_desync_us

\* C2: the synchronizer never drops a keyframe: every keyframe accepted by
\* push_video since the last reset is still in m_video_buffer or was returned
\* inside a tuple.
C2_KeyframeNeverDropped ==
    \A i \in 1..Len(pushedV) :
        pushedV[i].keyframe =>
            \/ pushedV[i] \in SeqToSet(m_video_buffer)
            \/ pushedV[i] \in EmittedVideoFrames

\* C3: no audio frame is dropped at the sender: every audio frame accepted
\* by push_audio has been returned for delivery or is still buffered.
C3_NoSilentAudioDrop ==
    Len(pushedA) = Len(EmittedAudio) + Len(m_audio_buffer)

\* C4: every tuple returned by get_next carries a video frame or an audio
\* frame.
C4_TupleNotEmpty ==
    ret.valid => (ret.video_valid \/ ret.audio_valid)

\* C9: no tuple is emitted before a keyframe is available: the first tuple
\* returned since start or reset carries a keyframe as its video half.
C9_FirstTupleIsKeyframe ==
    tuples # <<>> => (tuples[1].video_valid /\ tuples[1].video.keyframe)

\* C10: within each stream the frames leave the synchronizer in the order in
\* which they were pushed (ids are assigned in push order), and when the
\* pushed PTS of a stream are non-decreasing so are its emitted PTS.
NonDecreasingPts(frames) ==
    \A i, j \in 1..Len(frames) : i < j => frames[i].pts <= frames[j].pts
C10_OrderPreserved ==
    /\ \A i, j \in 1..Len(EmittedVideo) :
          i < j => EmittedVideo[i].video.id < EmittedVideo[j].video.id
    /\ \A i, j \in 1..Len(EmittedAudio) :
          i < j => EmittedAudio[i].audio.id < EmittedAudio[j].audio.id
    /\ NonDecreasingPts(pushedV) =>
          NonDecreasingPts([i \in 1..Len(EmittedVideo) |-> EmittedVideo[i].video])
    /\ NonDecreasingPts(pushedA) =>
          NonDecreasingPts([i \in 1..Len(EmittedAudio) |-> EmittedAudio[i].audio])
\* two video frames with different PTS and two audio frames have been emitted
C10_Witness ==
    /\ Len(EmittedVideo) >= 2
    /\ Len(EmittedAudio) >= 2
    /\ EmittedVideo[1].video.pts < EmittedVideo[2].video.pts

\* ======================================================================
\*  Properties of the receiver
\* ======================================================================
\* C5: the receiver never drops a keyframe: no decision taken about a frame
\* flagged as keyframe (checkVideoSync, decodeVideoFrame,
\* VideoDecoder::decode) is drop, and no frames-dropped counter is
\* incremented for it.
C5_KeyframeNeverDroppedRx ==
    (lastSync.called /\ lastSync.keyframe)
        => (lastSync.result # "drop" /\ lastSync.dropped = 0)

\* C6: checkVideoSync chooses, for diff = framePts - masterTime and the
\* keyframe flag: delay when 40 ms < diff <= 200 ms; display when
\* -40 ms <= diff <= 40 ms; below -40 ms display for a keyframe, otherwise
\* repeat down to -100 ms and drop below -100 ms.
C6_ClassifierMapping ==
    (lastSync.called /\ lastSync.fn = "checkVideoSync" /\ lastSync.diff <= 200000)
        => lastSync.result =
              IF lastSync.diff > 40000 THEN "delay"
              ELSE IF lastSync.diff >= 0 - 40000 THEN "display"
              ELSE IF lastSync.keyframe THEN "display"
              ELSE IF lastSync.diff >= 0 - 100000 THEN "repeat"
              ELSE "drop"

\* C7: the master-clock speed is always within [0.9, 1.1].
C7_SpeedBounded ==
    m_speed >= SPEED_MIN /\ m_speed <= SPEED_MAX
\* adjustSpeed has acted while the clock was running (it re-anchored the
\* clock) and left the speed at a bound, which only an out-of-range factor
\* does
C7_Witness ==
    /\ m_speed \in {SPEED_MIN, SPEED_MAX}
    /\ m_baseTime > StartTime
    /\ m_basePts > 0

\* ======================================================================
\*  Properties of the control channel
\* ======================================================================
\* C8: control messages are applied from the single authorized peer only:
\* all the handler calls and all the replies were caused by messages of one
\* and the same peer.
C8_OnlyAuthorizedPeerApplied ==
    \E p \in Peers :
        /\ \A i \in 1..Len(handler_calls) : handler_calls[i].from = p
        /\ \A i \in 1..Len(sent) : sent[i].kind = "pong" => sent[i].from = p

\* ======================================================================
\*  Properties of the sender's threads
\* ======================================================================
\* C11: get_next always returns; when the wait ended without a frame or the
\* synchronizer is not running it returns None and removes nothing from
\* either buffer, also when stop() ran while it was waiting.
C11_GetNextReturns ==
    /\ [][(gn_pc = "decide" /\ gn_pc' = "idle" /\ (~have_frames \/ ~m_running))
            => (~ret'.valid /\ UNCHANGED <<m_video_buffer, m_audio_buffer>>)]_vars
    /\ (gn_pc # "idle") ~> (gn_pc = "idle")
\* a get_next that was waiting when stop() stored m_running has been woken
\* by the notification, before its timeout, and has returned None
C11_Witness ==
    /\ gn_pc = "idle"
    /\ stop_seen
    /\ gn_notified
    /\ ~gn_expired
    /\ ~ret.valid
    /\ ~m_running

C13_VideoBufferBounded ==
    /\ Len(m_video_buffer) <= VIDEO_BUFFER_LIMIT
    /\ \A l \in lostV :
          l.cause = "overflow" =>
              \A i \in 1..Len(m_video_buffer) : l.frame.id < m_video_buffer[i].id
    /\ m_stats.frames_dropped = Cardinality(lostV)
\* a push has overflowed the full buffer
C13_Witness ==
    /\ Len(m_video_buffer) = VIDEO_BUFFER_LIMIT
    /\ \E l \in lostV : l.cause = "overflow"
    /\ m_stats.frames_dropped >= 1
\* C14: every drift correction sets the master-clock speed 2% off nominal
\* when the absolute drift exceeds SYNC_THRESHOLD_US and to nominal otherwise;
\* with the drift inside the band, a nominal speed stays nominal.
C14_DriftCorrection ==
    /\ [][correctDrift =>
            /\ Abs(rx_stats.avDrift) > SYNC_THRESHOLD_US
                    => (Abs(m_speed' - SPEED_NOMINAL) = 20 /\ rx_stats'.playbackSpeed = m_speed')
            /\ Abs(rx_stats.avDrift) <= SYNC_THRESHOLD_US
                    => (m_speed' = SPEED_NOMINAL /\ rx_stats'.playbackSpeed = SPEED_NOMINAL)]_vars
    /\ [][(/\ Abs(rx_stats.avDrift) <= SYNC_THRESHOLD_US
           /\ Abs(rx_stats'.avDrift) <= SYNC_THRESHOLD_US
           /\ m_speed = SPEED_NOMINAL) => m_speed' = SPEED_NOMINAL]_vars

\* the clock ran 2% off nominal for a tick, the drift came back inside the band
\* with a later timestamp, and the next correction re-anchored the clock and
\* set the speed to nominal
C14_Witness ==
    /\ Len(m_videoJitter.m_samples) + Len(m_audioJitter.m_samples) >= 3
    /\ Abs(rx_stats.avDrift) <= SYNC_THRESHOLD_US
    /\ rx_stats.videoPts > 0 /\ rx_stats.audioPts > 0
    /\ m_speed = SPEED_NOMINAL
    /\ rx_stats.playbackSpeed = SPEED_NOMINAL
    /\ m_baseTime = StartTime + TickStep
    /\ \E p \in UpdPtsSet : m_basePts \in {p + Scaled(TickStep, SPEED_SLOW), p + Scaled(TickStep, SPEED_FAST)}

\* C15: after a change of the clock source, the first timestamp update of the
\* new source leaves the value of the master clock where it was.
C15_SourceChangeContinuous ==
    switched.state = "done" => switched.after = switched.before

\* C16: every frame returned by encode() or flush() carries the PTS of the
\* captured frame it encodes, so the returned PTS never decrease when the
\* captured ones do not.
C16_OutputCarriesInputPts ==
    /\ \A i \in 1..Len(enc_outputs) : enc_outputs[i].pts = enc_outputs[i].src_pts
    /\ \A i, j \in 1..Len(enc_outputs) : i < j => enc_outputs[i].pts <= enc_outputs[j].pts

\* C17: the first frame returned after request_keyframe() is a keyframe, also
\* when an encode() in between returned an error.
C17_KeyframeAfterRequest ==
    \A i \in 1..Len(enc_outputs) : enc_outputs[i].requested => enc_outputs[i].keyframe

\* the messages given to send_control since the last process_message began
SentSinceLastIn == SubSeq(sent, last_in.sent_before + 1, Len(sent))

\* C18: a Ping with sequence s given to process_message is answered by exactly
\* one Pong with sequence s and echo_sequence s, with or without a handler;
\* a message of another type is answered by no Pong.
C18_PingAnswered ==
    last_in.seen =>
        LET pongs == {i \in 1..Len(SentSinceLastIn) : SentSinceLastIn[i].type = "Pong"}
        IN IF last_in.type = "Ping"
           THEN /\ Cardinality(pongs) = 1
                /\ \A i \in pongs : /\ SentSinceLastIn[i].sequence = last_in.sequence
                                     /\ SentSinceLastIn[i].echo_sequence = last_in.sequence
           ELSE pongs = {}

\* a numeric field is absent or a number inside [min_val, max_val]
FieldPermitted(field, min_val, max_val) ==
    \/ field.kind = "absent"
    \/ field.kind = "number" /\ JsonValue(field) >= min_val /\ JsonValue(field) <= max_val

\* the payload has a permitted size and permitted width, height and bitrate
PayloadPermitted(json) ==
    /\ json.size = "ok"
    /\ FieldPermitted(json.width, 64, 7680)
    /\ FieldPermitted(json.height, 64, 4320)
    /\ FieldPermitted(json.bitrate, 100000, 100000000)

\* C19: on_parameters_changed is called only for payloads of a permitted
\* size whose width, height and bitrate are inside the permitted ranges.
C19_InvalidParametersRejected ==
    \A i \in 1..Len(handler_calls) :
        handler_calls[i].call = "on_parameters_changed"
            => PayloadPermitted(handler_calls[i].payload)

\* C20: the StreamParameters given to on_parameters_changed for a valid
\* SetBitrate (SetResolution) message carry the bitrate (width and height)
\* of the payload.
C20_ParametersCarried ==
    \A i \in 1..Len(handler_calls) :
        LET c == handler_calls[i]
        IN (c.call = "on_parameters_changed" /\ PayloadPermitted(c.payload)) =>
              /\ (c.type = "SetBitrate" /\ c.payload.bitrate.kind = "number")
                    => c.params.bitrate = JsonValue(c.payload.bitrate)
              /\ (c.type = "SetResolution" /\ c.payload.width.kind = "number"
                                           /\ c.payload.height.kind = "number")
                    => /\ c.params.width = JsonValue(c.payload.width)
                       /\ c.params.height = JsonValue(c.payload.height)

ExpectedExitCode(cause) ==
    IF cause = "success" THEN 0
    ELSE IF cause \in {"invalid_argument", "init_failure"} THEN 1
    ELSE IF cause = "permission_denied" THEN 2
    ELSE IF cause = "SIGINT" THEN 130
    ELSE exit.code

\* C25: main returns 0 on success, 1 on an invalid argument or a failed
\* initialization, 2 when capture permission is denied, 130 after SIGINT.
C25_ExitCodes ==
    exit.done => exit.code = ExpectedExitCode(exit.cause)

\* C23: parsing the text written for valid options succeeds and gives the
\* same options back.
C23_ConfigRoundTrip ==
    cfg_pc = "parsed" => (cfg_out.ok /\ cfg_out.options = cfg_in)

\* the directories a configuration file may be loaded from
UserConfigDirectory == Home \o <<".config">>
UserLocalDataDirectory == Home \o <<".local", "share">>
PermittedDirectories(home) ==
    (IF home THEN {UserConfigDirectory, UserLocalDataDirectory} ELSE {})
        \cup {<<"etc", "stream-linux">>, <<"tmp", "stream-linux">>}
\* where a path without ".." leads, the home directory written as "~"
ResolvesTo(path) ==
    IF ~path.absolute /\ path.parts # <<>> /\ path.parts[1] = "~"
    THEN Path(TRUE, Home \o SubSeq(path.parts, 2, Len(path.parts)))
    ELSE IF exists(path) THEN canonical(path) ELSE Path(TRUE, Located(path))
PathPermitted(path, home) ==
    /\ ~HasDotDot(path)
    /\ \E directory \in PermittedDirectories(home) : HasPrefix(ResolvesTo(path), directory)

\* C24: load accepts a non-empty path exactly when it holds no ".." and
\* resolves under the user-config directory, the user-local-data directory,
\* /etc/<app>/ or /tmp/<app>/, and never opens a file outside of them.
C24_ConfigPathSafe ==
    (load_out.done /\ ~IsEmptyPath(load_in.path)) =>
        /\ load_out.accepted <=> PathPermitted(load_in.path, load_in.home)
        /\ load_out.opened # NoPath =>
               \E directory \in PermittedDirectories(load_in.home) :
                   HasPrefix(load_out.opened, directory)

\* the head of the video buffer is early for presentation time pt
EarlyHead(buf, pt) ==
    /\ buf # <<>>
    /\ ~Head(buf).keyframe
    /\ Head(buf).pts - pt >= m_config.max_desync_us

\* C26: a get_next call that builds a tuple attaches the head of the video
\* buffer exactly when it is in sync or a keyframe, drops late heads and
\* goes on to the next head, and so ends with a video frame attached, with
\* the video buffer empty, or with an early head left in the buffer.
C26_VideoSelectionRetries ==
    [][Len(tuples') = Len(tuples) + 1 =>
          LET t == tuples'[Len(tuples')]
              pt == t.presentation_time
          IN /\ (m_video_buffer # <<>> /\
                    (Abs(Head(m_video_buffer).pts - pt) < m_config.max_desync_us
                         \/ Head(m_video_buffer).keyframe))
                   => (t.video_valid /\ t.video = Head(m_video_buffer))
             /\ \/ t.video_valid
                \/ m_video_buffer' = <<>>
                \/ EarlyHead(m_video_buffer', pt)]_vars

\* the PTS of the frame pushed last since the reset, 0 when there is none
LastPushedPts(pushed) == IF pushed = <<>> THEN 0 ELSE pushed[Len(pushed)].pts

VideoBuffered(id) == \E i \in 1..Len(m_video_buffer) : m_video_buffer[i].id = id
AudioBuffered(id) == \E i \in 1..Len(m_audio_buffer) : m_audio_buffer[i].id = id

\* C28: with the default configuration and PTS that never decrease within a
\* stream, every frame buffered in a running synchronizer leaves its buffer
\* (attached to a tuple or dropped) as get_next keeps being called, also
\* when nothing more is pushed.
C28_BufferedFramesLeave ==
    /\ \A id \in 1..MaxPushV : (m_running /\ VideoBuffered(id)) ~> ~VideoBuffered(id)
    /\ \A id \in 1..MaxPushA : (m_running /\ AudioBuffered(id)) ~> ~AudioBuffered(id)

\* C29: between resets the video frames accepted by push_video are those
\* returned in tuples, those counted in frames_dropped and those still in
\* m_video_buffer; frames_dropped never decreases; no frame is returned in
\* two tuples and frames_duplicated stays 0.
C29_VideoConservation ==
    /\ [](/\ Len(pushedV) = Len(EmittedVideo) + m_stats.frames_dropped + Len(m_video_buffer)
          /\ \A i, j \in 1..Len(EmittedVideo) :
                i # j => EmittedVideo[i].video.id # EmittedVideo[j].video.id
          /\ \A i \in 1..Len(EmittedVideo), j \in 1..Len(m_video_buffer) :
                EmittedVideo[i].video.id # m_video_buffer[j].id
          /\ m_stats.frames_duplicated = 0)
    /\ [][Len(pushedV') >= Len(pushedV)
              => m_stats'.frames_dropped >= m_stats.frames_dropped]_vars
\* a full buffer has overflowed, a frame has been returned and frames are
\* still buffered
C29_Witness ==
    /\ \E l \in lostV : l.cause = "overflow"
    /\ EmittedVideo # <<>>
    /\ m_video_buffer # <<>>
    /\ Len(pushedV) > VIDEO_BUFFER_LIMIT

\* thread t is inside a call and its next step waits for a mutex that
\* another thread holds
Blocked(t) ==
    \/ NextStep(t) \in {"lock_buffer", "wait_reacquire"} /\ buffer_mutex_owner # NoThread
    \/ NextStep(t) = "lock_stats" /\ stats_mutex_owner # NoThread

\* C30: whatever the interleaving of push_video, push_audio, get_next,
\* reset, get_stats and stop, no thread takes m_buffer_mutex while it
\* holds m_stats_mutex (m_stats_mutex is taken alone or inside
\* m_buffer_mutex), and the threads inside a call are never all waiting
\* for a mutex.
C30_LockOrder ==
    /\ \A t \in Threads :
          NextStep(t) \in {"lock_buffer", "wait_reacquire"} => stats_mutex_owner # t
    /\ (\E t \in Threads : pc[t] # 0) => (\E t \in Threads : pc[t] # 0 /\ ~Blocked(t))
\* one thread holds m_buffer_mutex and waits for m_stats_mutex, which a
\* thread inside get_stats holds alone
C30_Witness ==
    \E t, u \in Threads :
        /\ buffer_mutex_owner = t
        /\ NextStep(t) = "lock_stats"
        /\ stats_mutex_owner = u
        /\ program[u] = StatsSection

\* C31: nothing suspends a thread that holds m_buffer_mutex: the output
\* callback of get_next runs after the mutex has been released, a thread
\* inside the condition-variable wait does not hold it, and push_video,
\* push_audio and reset neither wait on the condition variable nor call
\* the callback.
C31_NoSuspensionUnderLock ==
    \A t \in Threads :
        /\ NextStep(t) \in {"callback", "wait_reacquire"} => buffer_mutex_owner # t
        /\ program[t] \in PushVideoProgram \cup PushAudioProgram \cup ResetProgram
              => NextStep(t) \notin {"callback", "wait_release", "wait_reacquire"}
\* one thread is about to run the callback of get_next, another one is
\* inside the wait of get_next, and a third call holds the mutex
C31_Witness ==
    \E t, u \in Threads :
        /\ NextStep(t) = "callback"
        /\ buffer_mutex_owner = u
        /\ u # t
        /\ program[u] \in PushVideoProgram \cup ResetProgram

\* C32: a thread that entered one of the portal waits of
\* WaylandCapture::initialize or WaylandCapture::start leaves it again,
\* whether or not the portal ever answers.
C32_PortalWaitReturns == (wl_pc \in PortalWaits) ~> (wl_pc = "idle")

\* the bounded part of the same sentence: read_frame always returns
C32_ReadFrameReturns == (rd_pc = "waiting") ~> (rd_pc = "idle")

\* C33: a frame leaves the pull queue of the audio source only because
\* read_frame returned it; the producer callback evicts nothing.
C33_NoQueuedFrameEvicted ==
    [][(frame_queue # <<>> /\ (frame_queue' = <<>> \/ Head(frame_queue') # Head(frame_queue)))
          => (rd_pc = "waiting" /\ rd_pc' = "idle" /\ rd_ret'.frame = Head(frame_queue))]_vars

\* C38: update(jitter, loss) raises the size by 10 (at most to 200) when
\* jitter > 20 ms or loss > 0, lowers it by 5 (at least to 20) when
\* jitter < 5 ms and loss = 0, and leaves it alone otherwise; the size
\* stays within [20, 200].
C38_UpdateRule ==
    /\ m_bufferSize \in MIN_BUFFER_MS..MAX_BUFFER_MS
    /\ ab_in.called =>
          m_bufferSize =
             IF ab_in.jitter > 20000 \/ ab_in.packetLoss > 0
             THEN (IF ab_before + 10 < 200 THEN ab_before + 10 ELSE 200)
             ELSE IF ab_in.jitter < 5000 /\ ab_in.packetLoss = 0
             THEN (IF ab_before - 5 > 20 THEN ab_before - 5 ELSE 20)
             ELSE ab_before

\* C34: adjustSpeed does not move the clock, and apart from setTime and
\* reset no step makes getTime() go back: a step that leaves the steady
\* clock alone leaves getTime() alone, a step that advances it does not
\* lower getTime().
C34_AdjustSpeedKeepsTime ==
    [][(~(\E pts \in UpdPtsSet : setTime(pts)) /\ ~MasterClock_reset)
          => /\ getTimeAfter >= getTime
             /\ (now' = now => getTimeAfter = getTime)]_vars
\* adjustSpeed has re-anchored the clock at a changed speed after time had
\* passed, and the present reading of the clock is a truncated one
C34_Witness ==
    /\ m_baseTime > StartTime
    /\ m_speed # SPEED_NOMINAL
    /\ m_basePts % 1000 # 0
    /\ now > m_baseTime
    /\ ((now - m_baseTime) * m_speed) % 1000 # 0

\* C35: the statistic playbackSpeed equals the speed of the master clock
\* after any sequence of updateVideoTime, updateAudioTime, correctDrift and
\* reset (so a time update does not undo the speed correctDrift chose).
C35_PlaybackSpeedIsClockSpeed == rx_stats.playbackSpeed = m_speed

\* C36: get_rtt_ms changes only when a Pong is processed that echoes the
\* sequence of the most recently sent ping; a Pong with no ping sent, or
\* with another sequence, leaves it alone.
C36_RttOnlyFromEchoedPong ==
    [][m_rtt_ms' # m_rtt_ms
          => /\ last_in'.seen
             /\ last_in'.type = "Pong"
             /\ m_last_ping_sequence > 0
             /\ last_in'.sequence = m_last_ping_sequence]_vars

\* C37: encode(), flush() and set_bitrate() called before a successful
\* initialize() return NotInitialized and leave the PTS counter and the
\* statistics unchanged.
C37_RejectedBeforeInitialize ==
    [][(~m_initialized /\ ~m_initialized' /\ enc_ret' # enc_ret)
          => (enc_ret'.error = "NotInitialized" /\ UNCHANGED <<m_pts_counter, enc_stats>>)]_vars

\* C39: from the second sample on, every addSample leaves the jitter
\* estimate at J_prev + (D - J_prev)/16, up to the truncation to whole
\* microseconds, where J_prev is the estimate before the sample and D the
\* deviation of the newest pair of samples; also in a full window.
C39_JitterRecurrence ==
    [][(m_videoJitter' # m_videoJitter /\ Len(m_videoJitter'.m_samples) >= 2)
          => LET samples == m_videoJitter'.m_samples
                 n == Len(samples)
                 D == Abs((samples[n].arrivalTime - samples[n - 1].arrivalTime)
                          - (samples[n].pts - samples[n - 1].pts))
                 J_prev == m_videoJitter.m_jitterEstimate
                 expected == (15 * J_prev + D) \div 16
             IN Abs(m_videoJitter'.m_jitterEstimate - expected) <= 1]_vars

\* C40: the optimal playout delay of the jitter buffer is within
\* [20 ms, 200 ms] whatever the jitter estimate is.
C40_DelayWithinBounds ==
    Len(m_videoJitter.m_samples) >= 2
       => /\ getOptimalBufferDelay(m_videoJitter) >= 20000
          /\ getOptimalBufferDelay(m_videoJitter) <= 200000

====
